---- MODULE Spec2Model ----
(***************************************************************************)
(* Resilience layer of lib_ai (src/src/error.rs): the RetryExecutor loop   *)
(* and the CircuitBreaker state machine.  Durations and Instants are       *)
(* natural numbers of one abstract time unit; `now` is the monotonic       *)
(* clock read by Instant::now().                                           *)
(***************************************************************************)
EXTENDS Integers, Sequences, FiniteSets, TLC

\* ------------------------------------------------------------------ bounds
NumThreads == 2       \* concurrent callers of CircuitBreaker::execute
MaxTime == 2          \* the clock of the breaker runs stops advancing here
MaxRetryTime == 5     \* the clock of the retry runs stops advancing here
MaxCalls == 3         \* calls made on one breaker (execute, open, reset)

Threads == 1..NumThreads
None == -1            \* Option::None for Option<Duration>

VARIABLES
    now,              \* Instant::now()
    \* --- CircuitBreaker (error.rs 812-817) and its callers
    config,           \* CircuitBreaker.config
    state,            \* CircuitBreaker.state (the value behind the Mutex)
    request_history,  \* CircuitBreaker.request_history (behind its Mutex)
    state_mutex,      \* "free", "poisoned", or "held" (by a thread that never returns)
    history_mutex,    \* the same for the request_history Mutex
    pc,               \* position of each caller inside execute
                      \*   "idle", "operation", "rejected", "record", "returned",
                      \*   "blocked", "deadlocked", "panicked", and
                      \*   "manual_blocked", "manual_panicked" inside reset,
                      \*   close or open
    request_time,     \* execute's local start_time, passed as request_time
    outcome,          \* result of the caller's operation: "none", "ok", "err"
    ret,              \* what the caller's last execute call returned
    calls,            \* number of calls made so far (bounded by MaxCalls)
    probes_admitted,  \* history variable: calls admitted in the latest HalfOpen episode
    only_failures,    \* history variable: nothing but failing calls so far
    \* --- RetryExecutor (error.rs 511-514) and the execute call in progress
    retry_config,     \* RetryExecutor.config
    start_time,       \* RetryExecutor.start_time, set by RetryExecutor::new
    context,          \* execute's local RetryContext
    last_error,       \* execute's local last_error
    rpc,              \* position inside RetryExecutor::execute:
                      \*   "idle", "operation", "sleeping", "returned"
    wake_at,          \* instant at which the pending sleep(delay) is over
    retry_ret,        \* what the execute call returned
    retry_calls,      \* number of execute calls made on the executor
    call_start,       \* history variable: instant at which the call began
    invocations,      \* history variable: operation() calls made by this call
    failures,         \* history variable: how many of them returned Err
    \* --- ResilientProvider (error.rs 1152-1156)
    method,           \* the provider method of the latest call: "none",
                      \*   "complete", "complete_stream"
    inner_error,      \* history variable: the error the inner provider returned
                      \*   last in this call, as the inner provider made it
    provider_error,   \* the error this call hands to its caller
    \* --- CircuitBreakerRegistry (error.rs 1087-1090) and its callers
    breakers,         \* CircuitBreakerRegistry.breakers: service name -> the
                      \*   breaker stored for it (index in instances), 0 if none
    default_config,   \* CircuitBreakerRegistry.default_config
    instances,        \* the CircuitBreaker objects created so far, in order
    registry_callers, \* each caller of the registry: position ("idle",
                      \*   "called", "returned"), method, arguments, result
    registry_calls,   \* number of registry calls made so far
    \* --- history variables of the recovery runs
    opened,           \* open() has been called on the breaker
    stale             \* callers whose operation was invoked before open()
                      \*   was called and who have not returned yet

cb_vars == <<config, state, request_history, state_mutex, history_mutex, pc,
             request_time, outcome, ret, calls, probes_admitted, only_failures>>

retry_vars == <<retry_config, start_time, context, last_error, rpc, wake_at,
                retry_ret, retry_calls, call_start, invocations, failures>>

provider_vars == <<method, inner_error, provider_error>>

reg_vars == <<breakers, default_config, instances, registry_callers,
              registry_calls>>

rec_vars == <<opened, stale>>

vars == <<now, cb_vars, retry_vars, provider_vars, reg_vars, rec_vars>>

\* -------------------------------------------------------- CircuitBreaker
\* Values of CircuitBreakerConfig the model ranges over (percentages, counts,
\* durations): minimum_request_count 1 and 2, half_open_max_requests 0, 1
\* and 2, and a success_threshold that can (60) and cannot (150) be met.
\* failure_threshold is an f64 and zero counts are legal u32 values.
CircuitBreakerConfig(min_count, half_open_max, success) ==
    [failure_threshold      |-> 50,
     minimum_request_count  |-> min_count,
     measurement_window     |-> 1,
     recovery_timeout       |-> 2,
     half_open_max_requests |-> half_open_max,
     success_threshold      |-> success]

CircuitBreakerConfigs ==
    {CircuitBreakerConfig(1, 0, 60), CircuitBreakerConfig(2, 1, 60),
     CircuitBreakerConfig(1, 2, 60), CircuitBreakerConfig(2, 2, 150)}

Closed == [tag |-> "Closed", opened_at |-> 0, attempts |-> 0, successes |-> 0]
Open(at) == [tag |-> "Open", opened_at |-> at, attempts |-> 0, successes |-> 0]
HalfOpen(at, a, s) ==
    [tag |-> "HalfOpen", opened_at |-> at, attempts |-> a, successes |-> s]

Success(t) == [ok |-> TRUE, time |-> t]
Failure(t) == [ok |-> FALSE, time |-> t]

\* (num / den) * 100.0 >= threshold, for den > 0; exact for the small counts
\* and whole-number thresholds used here.
RateAtLeast(num, den, threshold) == num * 100 >= threshold * den

\* allow_request with the recovery_timeout test left out.
allow_request_ignores_timeout(cfg, st, t) ==
    CASE st.tag = "Closed" -> [allowed |-> TRUE, state |-> st]
      [] st.tag = "Open" -> [allowed |-> TRUE, state |-> HalfOpen(st.opened_at, 0, 0)]
      [] st.tag = "HalfOpen" ->
            [allowed |-> st.attempts < cfg.half_open_max_requests, state |-> st]

\* allow_request stamping the HalfOpen state with the current instant.
allow_request_restamps(cfg, st, t) ==
    CASE st.tag = "Closed" -> [allowed |-> TRUE, state |-> st]
      [] st.tag = "Open" ->
            IF t - st.opened_at >= cfg.recovery_timeout
            THEN [allowed |-> TRUE, state |-> HalfOpen(t, 0, 0)]
            ELSE [allowed |-> FALSE, state |-> st]
      [] st.tag = "HalfOpen" ->
            [allowed |-> st.attempts < cfg.half_open_max_requests, state |-> st]

\* allow_request: the gate, one critical section on the state Mutex.
allow_request(cfg, st, t) ==
    CASE st.tag = "Closed" -> [allowed |-> TRUE, state |-> st]
      [] st.tag = "Open" ->
            IF t - st.opened_at >= cfg.recovery_timeout
            THEN [allowed |-> TRUE, state |-> HalfOpen(st.opened_at, 0, 0)]
            ELSE [allowed |-> FALSE, state |-> st]
      [] st.tag = "HalfOpen" ->
            [allowed |-> st.attempts < cfg.half_open_max_requests, state |-> st]

\* The while-let loop of add_request_outcome: drop entries from the front
\* while they are older than measurement_window.
RECURSIVE prune_front(_, _, _)
prune_front(cfg, history, t) ==
    IF history # <<>> /\ t - Head(history).time > cfg.measurement_window
    THEN prune_front(cfg, Tail(history), t)
    ELSE history

add_request_outcome(cfg, history, entry, t) ==
    Append(prune_front(cfg, history, t), entry)

\* record_success closing the circuit without the success-rate test.
record_success_ignores_rate(cfg, st, t) ==
    IF st.tag = "HalfOpen"
    THEN LET new_attempts == st.attempts + 1
             new_successes == st.successes + 1
         IN IF new_attempts >= cfg.half_open_max_requests
            THEN [state |-> Closed, clear |-> TRUE]
            ELSE [state |-> HalfOpen(st.opened_at, new_attempts, new_successes),
                  clear |-> FALSE]
    ELSE [state |-> st, clear |-> FALSE]

\* record_success closing the circuit without clearing the history.
record_success_keeps_history(cfg, st, t) ==
    IF st.tag = "HalfOpen"
    THEN LET new_attempts == st.attempts + 1
             new_successes == st.successes + 1
         IN IF new_attempts >= cfg.half_open_max_requests
            THEN IF RateAtLeast(new_successes, new_attempts, cfg.success_threshold)
                 THEN [state |-> Closed, clear |-> FALSE]
                 ELSE [state |-> Open(t), clear |-> FALSE]
            ELSE [state |-> HalfOpen(st.opened_at, new_attempts, new_successes),
                  clear |-> FALSE]
    ELSE [state |-> st, clear |-> FALSE]

\* record_success counting the attempt but not the success.
record_success_drops_success(cfg, st, t) ==
    IF st.tag = "HalfOpen"
    THEN LET new_attempts == st.attempts + 1
             new_successes == st.successes
         IN IF new_attempts >= cfg.half_open_max_requests
            THEN IF RateAtLeast(new_successes, new_attempts, cfg.success_threshold)
                 THEN [state |-> Closed, clear |-> TRUE]
                 ELSE [state |-> Open(t), clear |-> FALSE]
            ELSE [state |-> HalfOpen(st.opened_at, new_attempts, new_successes),
                  clear |-> FALSE]
    ELSE [state |-> st, clear |-> FALSE]

\* The state section of record_success: the new state and whether the
\* history is cleared.
record_success(cfg, st, t) ==
    IF st.tag = "HalfOpen"
    THEN LET new_attempts == st.attempts + 1
             new_successes == st.successes + 1
         IN IF new_attempts >= cfg.half_open_max_requests
            THEN IF RateAtLeast(new_successes, new_attempts, cfg.success_threshold)
                 THEN [state |-> Closed, clear |-> TRUE]
                 ELSE [state |-> Open(t), clear |-> FALSE]
            ELSE [state |-> HalfOpen(st.opened_at, new_attempts, new_successes),
                  clear |-> FALSE]
    ELSE [state |-> st, clear |-> FALSE]

\* calculate_failure_rate: locks request_history; (failures, total) stand
\* for failures / total * 100.0, and 0.0 for an empty history.
calculate_failure_rate(history) ==
    [failures |-> Cardinality({i \in 1..Len(history) : ~history[i].ok}),
     total |-> Len(history)]

\* should_open_circuit: takes the request_history lock, returns false below
\* minimum_request_count, and otherwise calls calculate_failure_rate, which
\* locks request_history again while this guard is still alive.
should_open_circuit(cfg, history) ==
    IF Len(history) < cfg.minimum_request_count
    THEN "false"
    ELSE "relock"

\* record_failure counting a HalfOpen failure as one more probe.
record_failure_counts_probe(cfg, st, history, t) ==
    CASE st.tag = "Closed" ->
            IF should_open_circuit(cfg, history) = "relock"
            THEN [state |-> st, relock |-> TRUE]
            ELSE [state |-> st, relock |-> FALSE]
      [] st.tag = "HalfOpen" ->
            [state |-> HalfOpen(st.opened_at, st.attempts + 1, st.successes),
             relock |-> FALSE]
      [] st.tag = "Open" -> [state |-> st, relock |-> FALSE]

\* record_failure stamping an Open breaker again.
record_failure_restamps_open(cfg, st, history, t) ==
    CASE st.tag = "Closed" ->
            IF should_open_circuit(cfg, history) = "relock"
            THEN [state |-> st, relock |-> TRUE]
            ELSE [state |-> st, relock |-> FALSE]
      [] st.tag = "HalfOpen" -> [state |-> Open(t), relock |-> FALSE]
      [] st.tag = "Open" -> [state |-> Open(t), relock |-> FALSE]

\* The state section of record_failure.  "relock" marks the call that does
\* not return (std::sync::Mutex::lock on a mutex the thread already holds).
record_failure(cfg, st, history, t) ==
    CASE st.tag = "Closed" ->
            IF should_open_circuit(cfg, history) = "relock"
            THEN [state |-> st, relock |-> TRUE]
            ELSE [state |-> st, relock |-> FALSE]
      [] st.tag = "HalfOpen" -> [state |-> Open(t), relock |-> FALSE]
      [] st.tag = "Open" -> [state |-> st, relock |-> FALSE]

NoReturn == [kind |-> "none", failures |-> 0, total |-> 0, retry_after |-> None]
ReturnOk == [kind |-> "Ok", failures |-> 0, total |-> 0, retry_after |-> None]
ReturnErr == [kind |-> "Err", failures |-> 0, total |-> 0, retry_after |-> None]
\* The rejection carrying measurement_window as its retry_after.
CircuitBreakerOpen_after_window(rate, cfg) ==
    [kind |-> "CircuitBreakerOpen", failures |-> rate.failures,
     total |-> rate.total, retry_after |-> cfg.measurement_window]

CircuitBreakerOpen(rate, cfg) ==
    [kind |-> "CircuitBreakerOpen", failures |-> rate.failures,
     total |-> rate.total, retry_after |-> cfg.recovery_timeout]

\* open() has not been called.
NoRecovery ==
    /\ opened = FALSE
    /\ stale = {}

\* Callers are interchangeable: a new call runs on the first idle caller.
FirstIdle(t) == pc[t] = "idle" /\ \A u \in Threads : u < t => pc[u] # "idle"

InitBreaker ==
    /\ config \in CircuitBreakerConfigs
    /\ state = Closed
    /\ request_history = <<>>
    /\ state_mutex = "free"
    /\ history_mutex = "free"
    /\ pc = [t \in Threads |-> "idle"]
    /\ request_time = [t \in Threads |-> 0]
    /\ outcome = [t \in Threads |-> "none"]
    /\ ret = [t \in Threads |-> NoReturn]
    /\ calls = 0
    /\ probes_admitted = 0
    /\ only_failures = TRUE

\* A caller enters CircuitBreaker::execute (line 836): allow_request(); on
\* true, start_time = Instant::now() and the operation is invoked.
Admit(t) ==
    /\ FirstIdle(t)
    /\ calls < MaxCalls
    /\ state_mutex = "free"
    /\ calls' = calls + 1
    /\ LET r == allow_request(config, state, now)
       IN /\ state' = r.state
          /\ pc' = [pc EXCEPT ![t] = IF r.allowed THEN "operation" ELSE "rejected"]
          /\ request_time' = [request_time EXCEPT ![t] = IF r.allowed THEN now ELSE @]
          /\ probes_admitted' =
                IF r.allowed /\ state.tag = "Open" THEN 1
                ELSE IF r.allowed /\ state.tag = "HalfOpen" THEN probes_admitted + 1
                ELSE probes_admitted
    /\ UNCHANGED <<now, config, request_history, state_mutex, history_mutex,
                   outcome, ret, only_failures>>

\* execute called with an operation that is not the retry executor.
Call(t) == Admit(t) /\ UNCHANGED <<retry_vars, provider_vars, reg_vars, rec_vars>>

\* A caller enters execute while the state Mutex can no longer be taken:
\* it waits forever on a held mutex, and lock().unwrap() panics on a
\* poisoned one.
CallBlocked(t) ==
    /\ FirstIdle(t)
    /\ calls < MaxCalls
    /\ state_mutex # "free"
    /\ calls' = calls + 1
    /\ pc' = [pc EXCEPT ![t] = IF state_mutex = "held" THEN "blocked" ELSE "panicked"]
    /\ UNCHANGED <<now, config, state, request_history, state_mutex, history_mutex,
                   request_time, outcome, ret, probes_admitted, only_failures>>
    /\ UNCHANGED <<retry_vars, provider_vars, reg_vars, rec_vars>>

\* execute, lines 837-842: the rejected call reads the failure rate and
\* returns CircuitBreakerOpen; the operation is not invoked.
Reject(t) ==
    /\ pc[t] = "rejected"
    /\ history_mutex = "free"
    /\ ret' = [ret EXCEPT ![t] =
                  CircuitBreakerOpen(calculate_failure_rate(request_history), config)]
    /\ pc' = [pc EXCEPT ![t] = "returned"]
    /\ UNCHANGED <<now, config, state, request_history, state_mutex, history_mutex,
                   request_time, outcome, calls, probes_admitted, only_failures>>
    /\ UNCHANGED <<retry_vars, provider_vars, reg_vars, rec_vars>>

\* execute, line 848: the awaited operation completes with Ok or Err, and
\* record_success / record_failure run their first statement,
\* add_request_outcome(request_time), at the current instant.
Completes(t, ok) ==
    /\ pc[t] = "operation"
    /\ history_mutex = "free"
    /\ outcome' = [outcome EXCEPT ![t] = IF ok THEN "ok" ELSE "err"]
    /\ only_failures' = (only_failures /\ ~ok)
    /\ request_history' =
          add_request_outcome(config, request_history,
                              IF ok THEN Success(request_time[t])
                                    ELSE Failure(request_time[t]),
                              now)
    /\ pc' = [pc EXCEPT ![t] = "record"]
    /\ request_time' = [request_time EXCEPT ![t] = 0]
    /\ UNCHANGED <<now, config, state, state_mutex, history_mutex, ret, calls,
                   probes_admitted>>

OperationCompletes(t) ==
    /\ \E ok \in BOOLEAN : Completes(t, ok)
    /\ UNCHANGED <<retry_vars, provider_vars, reg_vars, rec_vars>>

\* record_success, lines 892-924, then execute returns Ok(result).
RecordSuccess(t) ==
    /\ pc[t] = "record"
    /\ outcome[t] = "ok"
    /\ state_mutex = "free"
    /\ history_mutex = "free"
    /\ LET r == record_success(config, state, now)
       IN /\ state' = r.state
          /\ request_history' = IF r.clear THEN <<>> ELSE request_history
    /\ pc' = [pc EXCEPT ![t] = "returned"]
    /\ ret' = [ret EXCEPT ![t] = ReturnOk]
    /\ UNCHANGED <<now, config, state_mutex, history_mutex, request_time, outcome,
                   calls, probes_admitted, only_failures>>
    /\ UNCHANGED <<retry_vars, provider_vars, reg_vars, rec_vars>>

\* record_failure, lines 931-953, on the paths that return; execute then
\* returns Err(error).
RecordFailure(t) ==
    /\ pc[t] = "record"
    /\ outcome[t] = "err"
    /\ state_mutex = "free"
    /\ history_mutex = "free"
    /\ LET r == record_failure(config, state, request_history, now)
       IN /\ ~r.relock
          /\ state' = r.state
    /\ pc' = [pc EXCEPT ![t] = "returned"]
    /\ ret' = [ret EXCEPT ![t] = ReturnErr]
    /\ UNCHANGED <<now, config, request_history, state_mutex, history_mutex,
                   request_time, outcome, calls, probes_admitted, only_failures>>
    /\ UNCHANGED <<retry_vars, provider_vars, reg_vars, rec_vars>>

\* record_failure on a Closed breaker whose history has reached
\* minimum_request_count: should_open_circuit holds the request_history
\* guard and calculate_failure_rate locks the same Mutex on the same thread.
\* std::sync::Mutex::lock then never returns: it blocks forever (both guards
\* stay held) or panics (both guards are dropped while panicking, which
\* poisons both mutexes).
RecordFailureRelock(t) ==
    /\ pc[t] = "record"
    /\ outcome[t] = "err"
    /\ state_mutex = "free"
    /\ history_mutex = "free"
    /\ record_failure(config, state, request_history, now).relock
    /\ \/ /\ pc' = [pc EXCEPT ![t] = "deadlocked"]
          /\ state_mutex' = "held"
          /\ history_mutex' = "held"
       \/ /\ pc' = [pc EXCEPT ![t] = "panicked"]
          /\ state_mutex' = "poisoned"
          /\ history_mutex' = "poisoned"
    /\ UNCHANGED <<now, config, state, request_history, request_time, outcome, ret,
                   calls, probes_admitted, only_failures>>
    /\ UNCHANGED <<retry_vars, provider_vars, reg_vars, rec_vars>>

\* lock().unwrap() on a poisoned Mutex panics in a caller that is already
\* inside execute.
PoisonPanic(t) ==
    /\ \/ pc[t] = "record" /\ state_mutex = "poisoned"
       \/ pc[t] \in {"rejected", "operation"} /\ history_mutex = "poisoned"
    /\ pc' = [pc EXCEPT ![t] = "panicked"]
    /\ UNCHANGED <<now, config, state, request_history, state_mutex, history_mutex,
                   request_time, outcome, ret, calls, probes_admitted, only_failures>>
    /\ UNCHANGED <<retry_vars, provider_vars, reg_vars, rec_vars>>

\* The caller takes the result of execute; its locals are gone.
Returns(t) ==
    /\ pc[t] = "returned"
    /\ pc' = [pc EXCEPT ![t] = "idle"]
    /\ ret' = [ret EXCEPT ![t] = NoReturn]
    /\ outcome' = [outcome EXCEPT ![t] = "none"]
    /\ UNCHANGED <<now, config, state, request_history, state_mutex, history_mutex,
                   request_time, calls, probes_admitted, only_failures>>

Return(t) == Returns(t) /\ UNCHANGED <<retry_vars, provider_vars, reg_vars, rec_vars>>

\* The body of CircuitBreaker::open.
Opens ==
    /\ state_mutex = "free"
    /\ state' = Open(now)
    /\ probes_admitted' = 0
    /\ only_failures' = FALSE
    /\ UNCHANGED <<now, config, request_history, state_mutex, history_mutex, pc,
                   request_time, outcome, ret>>

\* CircuitBreaker::open (also ResilientProvider::open_circuit_breaker).
ManualOpen ==
    /\ calls < MaxCalls
    /\ calls' = calls + 1
    /\ Opens
    /\ UNCHANGED <<retry_vars, provider_vars, reg_vars, rec_vars>>

\* CircuitBreaker::reset and CircuitBreaker::close have the same body.
ManualReset ==
    /\ calls < MaxCalls
    /\ calls' = calls + 1
    /\ state_mutex = "free"
    /\ history_mutex = "free"
    /\ state' = Closed
    /\ request_history' = <<>>
    /\ probes_admitted' = 0
    /\ only_failures' = FALSE
    /\ UNCHANGED <<now, config, state_mutex, history_mutex, pc, request_time,
                   outcome, ret>>
    /\ UNCHANGED <<retry_vars, provider_vars, reg_vars, rec_vars>>

\* reset, close or open called by a thread while the state Mutex can no
\* longer be taken (lines 1050, 1058, 1066): the call waits forever on a
\* held mutex, and lock().unwrap() panics on a poisoned one.  The breaker
\* is left as it was.
ManualBlocked(t) ==
    /\ FirstIdle(t)
    /\ calls < MaxCalls
    /\ state_mutex # "free"
    /\ calls' = calls + 1
    /\ pc' = [pc EXCEPT ![t] = IF state_mutex = "held" THEN "manual_blocked"
                                                      ELSE "manual_panicked"]
    /\ UNCHANGED <<now, config, state, request_history, state_mutex, history_mutex,
                   request_time, outcome, ret, probes_admitted, only_failures>>
    /\ UNCHANGED <<retry_vars, provider_vars, reg_vars, rec_vars>>

\* ------------------------------------------------ CircuitBreakerRegistry
MaxRegistryCalls == 4     \* calls made on one registry

\* Service names the callers pass.
ServiceNames == {"a", "b"}

\* Values of default_config the registry is built with.
RegistryDefaults == {CircuitBreakerConfig(1, 0, 60), CircuitBreakerConfig(2, 1, 60)}

\* Values of the config passed to create_with_config.
RegistryCustoms == {CircuitBreakerConfig(2, 2, 150)}

\* CircuitBreaker::new(service_name, config), with the function that built it.
NewCircuitBreaker(service_name, cfg, origin) ==
    [service_name |-> service_name, config |-> cfg, origin |-> origin]

IdleCaller ==
    [pc |-> "idle", method |-> "none", service_name |-> "none",
     config |-> CircuitBreakerConfig(1, 0, 60), ret |-> 0]

\* get_or_create building a breaker on every call.
get_or_create_always_creates(map, created, default, service_name) ==
    LET made == Append(created, NewCircuitBreaker(service_name, default, "get_or_create"))
    IN [breakers |-> [map EXCEPT ![service_name] = Len(made)],
        instances |-> made, ret |-> Len(made)]

\* get_or_create: entry(service_name).or_insert_with(...).clone(), one
\* critical section on the breakers Mutex.
get_or_create(map, created, default, service_name) ==
    IF map[service_name] # 0
    THEN [breakers |-> map, instances |-> created, ret |-> map[service_name]]
    ELSE LET made == Append(created,
                            NewCircuitBreaker(service_name, default, "get_or_create"))
         IN [breakers |-> [map EXCEPT ![service_name] = Len(made)],
             instances |-> made, ret |-> Len(made)]

\* create_with_config: a new breaker is built and inserted, replacing the
\* entry the name may have.
create_with_config(map, created, service_name, cfg) ==
    LET made == Append(created,
                       NewCircuitBreaker(service_name, cfg, "create_with_config"))
    IN [breakers |-> [map EXCEPT ![service_name] = Len(made)],
        instances |-> made, ret |-> Len(made)]

\* CircuitBreakerRegistry::new, whatever the default config.
NewRegistry ==
    /\ breakers = [n \in ServiceNames |-> 0]
    /\ instances = <<>>
    /\ registry_callers = [c \in Threads |-> IdleCaller]
    /\ registry_calls = 0

InitRegistry ==
    /\ default_config \in RegistryDefaults
    /\ NewRegistry

\* A registry that is built and never called.
NoRegistryCalls ==
    /\ default_config = CircuitBreakerConfig(1, 0, 60)
    /\ NewRegistry

\* A caller calls get_or_create or create_with_config and waits for the
\* breakers Mutex.
RegistryCall(c) ==
    /\ registry_callers[c].pc = "idle"
    /\ registry_calls < MaxRegistryCalls
    /\ registry_calls' = registry_calls + 1
    /\ \E service_name \in ServiceNames :
          \/ registry_callers' =
                [registry_callers EXCEPT ![c] =
                    [IdleCaller EXCEPT !.pc = "called", !.method = "get_or_create",
                                       !.service_name = service_name]]
          \/ \E cfg \in RegistryCustoms :
                registry_callers' =
                   [registry_callers EXCEPT ![c] =
                       [IdleCaller EXCEPT !.pc = "called",
                                          !.method = "create_with_config",
                                          !.service_name = service_name,
                                          !.config = cfg]]
    /\ UNCHANGED <<breakers, default_config, instances>>
    /\ UNCHANGED <<now, cb_vars, retry_vars, provider_vars, rec_vars>>

\* The caller holds the breakers Mutex and runs the body of get_or_create.
GetOrCreate(c) ==
    /\ registry_callers[c].pc = "called"
    /\ registry_callers[c].method = "get_or_create"
    /\ LET r == get_or_create(breakers, instances, default_config,
                              registry_callers[c].service_name)
       IN /\ breakers' = r.breakers
          /\ instances' = r.instances
          /\ registry_callers' =
                [registry_callers EXCEPT ![c].pc = "returned", ![c].ret = r.ret]
    /\ UNCHANGED <<default_config, registry_calls>>
    /\ UNCHANGED <<now, cb_vars, retry_vars, provider_vars, rec_vars>>

\* The caller holds the breakers Mutex and runs the body of create_with_config.
CreateWithConfig(c) ==
    /\ registry_callers[c].pc = "called"
    /\ registry_callers[c].method = "create_with_config"
    /\ LET r == create_with_config(breakers, instances,
                                   registry_callers[c].service_name,
                                   registry_callers[c].config)
       IN /\ breakers' = r.breakers
          /\ instances' = r.instances
          /\ registry_callers' =
                [registry_callers EXCEPT ![c].pc = "returned", ![c].ret = r.ret]
    /\ UNCHANGED <<default_config, registry_calls>>
    /\ UNCHANGED <<now, cb_vars, retry_vars, provider_vars, rec_vars>>

\* The caller drops the Arc it was given.
RegistryReturn(c) ==
    /\ registry_callers[c].pc = "returned"
    /\ registry_callers' = [registry_callers EXCEPT ![c] = IdleCaller]
    /\ UNCHANGED <<breakers, default_config, instances, registry_calls>>
    /\ UNCHANGED <<now, cb_vars, retry_vars, provider_vars, rec_vars>>

\* ----------------------------------------------------------- AiError
\* An error value: its kind and the fields that is_retryable and retry_after
\* read (the `retryable` flag, the optional `retry_after`, the metadata
\* entry "retryable" of a Custom error, held in `retryable` too).
NoProvider == "none"      \* no provider named (Option::None, or no metadata entry)
InnerName == "inner"      \* self.inner.name()

NoEntry == "none"         \* no such metadata entry (HashMap::get gives None)

\* Text is a sequence of word pieces, so that one text can be found inside
\* another; <<>> is the empty string.
AiError(kind, retryable, after, timeout) ==
    [kind |-> kind, retryable |-> retryable, retry_after |-> after,
     timeout |-> timeout, provider |-> NoProvider,
     metadata_retryable |-> NoEntry, message |-> <<>>]

\* The same error with `text` as its message.
WithMessage(error, text) == [error EXCEPT !.message = text]

NoError == AiError("None", FALSE, None, None)
NetworkError(retryable) == AiError("NetworkError", retryable, None, None)
TimeoutError(timeout, retryable) == AiError("TimeoutError", retryable, None, timeout)
RateLimitExceeded(after) == AiError("RateLimitExceeded", FALSE, after, None)
InvalidApiKey ==
    [AiError("InvalidApiKey", FALSE, None, None) EXCEPT !.provider = InnerName]
InternalError == AiError("InternalError", FALSE, None, None)
InvalidRequest == AiError("InvalidRequest", FALSE, None, None)
StreamInterrupted == AiError("StreamInterrupted", FALSE, None, None)
ServiceUnavailable(name, after) ==
    [AiError("ServiceUnavailable", FALSE, after, None) EXCEPT !.provider = name]
ProviderError(name, retryable) ==
    [AiError("ProviderError", retryable, None, None) EXCEPT !.provider = name]
\* A Custom error with its metadata entries "retryable" and "provider".
CustomError(retryable, name) ==
    [AiError("Custom", FALSE, None, None) EXCEPT !.metadata_retryable = retryable,
                                                 !.provider = name]

FlagKinds ==
    {"NetworkError", "TimeoutError", "ProviderError", "StreamError",
     "ToolExecutionError"}
RetryableKinds ==
    {"RateLimitExceeded", "ServiceUnavailable", "StreamInterrupted",
     "ConnectionRefused", "InternalError"}

\* is_retryable taking every variant with a retryable flag as retryable.
is_retryable_ignores_flag(error) ==
    IF error.kind \in FlagKinds THEN TRUE
    ELSE IF error.kind \in RetryableKinds THEN TRUE
    ELSE IF error.kind = "Custom" THEN error.metadata_retryable = "true"
    ELSE FALSE

is_retryable(error) ==
    IF error.kind \in FlagKinds THEN error.retryable
    ELSE IF error.kind \in RetryableKinds THEN TRUE
    ELSE IF error.kind = "Custom" THEN error.metadata_retryable = "true"
    ELSE FALSE

retry_after(error) ==
    IF error.kind \in {"RateLimitExceeded", "ServiceUnavailable", "CircuitBreakerOpen"}
    THEN error.retry_after
    ELSE None

\* The variants of AiError.
AllKinds ==
    {"NetworkError", "TimeoutError", "ConnectionRefused", "InvalidApiKey",
     "AuthenticationFailed", "ApiKeyExpired", "RateLimitExceeded", "QuotaExceeded",
     "InvalidRequest", "MalformedResponse", "UnsupportedModel", "ProviderError",
     "ServiceUnavailable", "ContentFiltered", "RequestTooLarge", "ResponseTooLarge",
     "TokenLimitExceeded", "InsufficientTokens", "SerializationError", "JsonError",
     "StreamError", "StreamInterrupted", "ToolExecutionError", "ToolNotFound",
     "InvalidToolParameters", "MemoryError", "ContextTooLarge", "ConfigurationError",
     "MissingConfiguration", "CircuitBreakerOpen", "InternalError", "NotImplemented",
     "Custom"}

\* The name of a variant as #[derive(Debug)] prints it, in word pieces.
KindName(kind) ==
    CASE kind = "NetworkError" -> <<"Network", "Error">>
      [] kind = "TimeoutError" -> <<"Timeout", "Error">>
      [] kind = "ConnectionRefused" -> <<"Connection", "Refused">>
      [] kind = "InvalidApiKey" -> <<"Invalid", "Api", "Key">>
      [] kind = "AuthenticationFailed" -> <<"Authentication", "Failed">>
      [] kind = "ApiKeyExpired" -> <<"Api", "Key", "Expired">>
      [] kind = "RateLimitExceeded" -> <<"Rate", "Limit", "Exceeded">>
      [] kind = "QuotaExceeded" -> <<"Quota", "Exceeded">>
      [] kind = "InvalidRequest" -> <<"Invalid", "Request">>
      [] kind = "MalformedResponse" -> <<"Malformed", "Response">>
      [] kind = "UnsupportedModel" -> <<"Unsupported", "Model">>
      [] kind = "ProviderError" -> <<"Provider", "Error">>
      [] kind = "ServiceUnavailable" -> <<"Service", "Unavailable">>
      [] kind = "ContentFiltered" -> <<"Content", "Filtered">>
      [] kind = "RequestTooLarge" -> <<"Request", "Too", "Large">>
      [] kind = "ResponseTooLarge" -> <<"Response", "Too", "Large">>
      [] kind = "TokenLimitExceeded" -> <<"Token", "Limit", "Exceeded">>
      [] kind = "InsufficientTokens" -> <<"Insufficient", "Tokens">>
      [] kind = "SerializationError" -> <<"Serialization", "Error">>
      [] kind = "JsonError" -> <<"Json", "Error">>
      [] kind = "StreamError" -> <<"Stream", "Error">>
      [] kind = "StreamInterrupted" -> <<"Stream", "Interrupted">>
      [] kind = "ToolExecutionError" -> <<"Tool", "Execution", "Error">>
      [] kind = "ToolNotFound" -> <<"Tool", "Not", "Found">>
      [] kind = "InvalidToolParameters" -> <<"Invalid", "Tool", "Parameters">>
      [] kind = "MemoryError" -> <<"Memory", "Error">>
      [] kind = "ContextTooLarge" -> <<"Context", "Too", "Large">>
      [] kind = "ConfigurationError" -> <<"Configuration", "Error">>
      [] kind = "MissingConfiguration" -> <<"Missing", "Configuration">>
      [] kind = "CircuitBreakerOpen" -> <<"Circuit", "Breaker", "Open">>
      [] kind = "InternalError" -> <<"Internal", "Error">>
      [] kind = "NotImplemented" -> <<"Not", "Implemented">>
      [] kind = "Custom" -> <<"Custom">>

\* format!("{:?}", error): the name of the variant, then its fields in
\* braces; of the fields the message text is kept.
debug(error) == KindName(error.kind) \o <<"{">> \o error.message \o <<"}">>

\* str::contains: pattern occurs in text as a contiguous part.
contains(text, pattern) ==
    \E i \in 0..(Len(text) - Len(pattern)) :
        SubSeq(text, i + 1, i + Len(pattern)) = pattern

\* AiError::provider: the provider field of the kinds that have one.
ProviderKinds ==
    {"InvalidApiKey", "ApiKeyExpired", "QuotaExceeded", "UnsupportedModel",
     "ProviderError", "ServiceUnavailable"}

provider(error) ==
    IF error.kind \in ProviderKinds THEN error.provider ELSE NoProvider

\* The kinds enhance_error hands on as they are.
PassThroughKinds ==
    {"NetworkError", "TimeoutError", "RateLimitExceeded", "InvalidApiKey",
     "ProviderError"}

\* enhance_error handing a Custom error on without the metadata entry.
enhance_error_skips_custom(error, provider_name) ==
    IF error.kind \in PassThroughKinds \cup {"Custom"}
    THEN error
    ELSE ProviderError(provider_name, is_retryable(error))

\* enhance_error(error, provider_name)
enhance_error(error, provider_name) ==
    IF error.kind \in PassThroughKinds
    THEN error
    ELSE IF error.kind = "Custom"
    THEN [error EXCEPT !.provider = provider_name]
    ELSE ProviderError(provider_name, is_retryable(error))

\* Errors the modelled operation can return.
OperationErrors ==
    {NetworkError(TRUE), NetworkError(FALSE), RateLimitExceeded(2),
     RateLimitExceeded(None), InvalidApiKey}

\* ------------------------------------------------------- RetryExecutor
Min(a, b) == IF a <= b THEN a ELSE b
Max(a, b) == IF a >= b THEN a ELSE b

RECURSIVE Pow(_, _)
Pow(m, n) == IF n = 0 THEN 1 ELSE m * Pow(m, n - 1)

Fixed == [kind |-> "Fixed", multiplier |-> 0, delays |-> <<>>]
Linear == [kind |-> "Linear", multiplier |-> 0, delays |-> <<>>]
Exponential(m) == [kind |-> "Exponential", multiplier |-> m, delays |-> <<>>]
CustomDelays(list) == [kind |-> "Custom", multiplier |-> 0, delays |-> list]

JitterNone == [kind |-> "None", amount |-> 0]
JitterFull == [kind |-> "Full", amount |-> 0]
JitterHalf == [kind |-> "Half", amount |-> 0]
JitterFixed(amount) == [kind |-> "Fixed", amount |-> amount]
Decorrelated == [kind |-> "Decorrelated", amount |-> 0]

RetryConfig(attempts, initial, maximum, backoff, jitter, respect, total, condition) ==
    [max_attempts |-> attempts, initial_delay |-> initial, max_delay |-> maximum,
     backoff |-> backoff, jitter |-> jitter, respect_retry_after |-> respect,
     max_total_time |-> total, retry_condition |-> condition, error_types |-> <<>>]

\* The config with RetryCondition::ErrorTypes(types).
WithErrorTypes(cfg, types) ==
    [cfg EXCEPT !.retry_condition = "ErrorTypes", !.error_types = types]

\* Values of RetryConfig the model ranges over.
RetryConfigs ==
    {RetryConfig(3, 1, 3, Exponential(2), JitterFull, TRUE, 3, "Default"),
     RetryConfig(2, 1, 3, Fixed, JitterNone, TRUE, None, "Always"),
     RetryConfig(0, 1, 3, Fixed, JitterNone, TRUE, 2, "Default"),
     RetryConfig(3, 1, 2, Linear, JitterHalf, FALSE, 4, "Custom"),
     RetryConfig(3, 1, 3, CustomDelays(<<1>>), Decorrelated, TRUE, None, "Default"),
     RetryConfig(1, 2, 3, Fixed, JitterFixed(1), TRUE, 2, "Never")}

\* RetryContext::new
NewRetryContext ==
    [attempt |-> 0, total_elapsed |-> 0, last_error |-> NoError,
     delay_history |-> <<>>]

\* The loop running one iteration too many.
in_attempt_range_off_by_one(cfg, attempt) ==
    attempt >= 1 /\ attempt <= cfg.max_attempts + 1

\* The range of the for loop, line 533.
in_attempt_range(cfg, attempt) == attempt >= 1 /\ attempt <= cfg.max_attempts

\* context.total_elapsed = self.start_time.elapsed(), line 535.
elapsed(started, t) == t - started

\* The budget test with > in place of >=.
budget_exceeded_strict(cfg, total_elapsed) ==
    cfg.max_total_time # None /\ total_elapsed > cfg.max_total_time

\* The budget test at the top of an attempt, lines 538-545.
budget_exceeded(cfg, total_elapsed) ==
    cfg.max_total_time # None /\ total_elapsed >= cfg.max_total_time

\* A retry condition that accepts no error.
should_retry_never(cfg, error) == FALSE

\* A retry condition that accepts every error.
should_retry_always(cfg, error) == TRUE

\* The Custom condition taking every error.
should_retry_custom_always(cfg, error) ==
    CASE cfg.retry_condition = "Default" -> is_retryable(error)
      [] cfg.retry_condition = "Always" -> TRUE
      [] cfg.retry_condition = "Never" -> FALSE
      [] cfg.retry_condition = "ErrorTypes" ->
            \E i \in 1..Len(cfg.error_types) :
                contains(debug(error), cfg.error_types[i])
      [] cfg.retry_condition = "Custom" -> TRUE

should_retry(cfg, error) ==
    CASE cfg.retry_condition = "Default" -> is_retryable(error)
      [] cfg.retry_condition = "Always" -> TRUE
      [] cfg.retry_condition = "Never" -> FALSE
      [] cfg.retry_condition = "ErrorTypes" ->
            \E i \in 1..Len(cfg.error_types) :
                contains(debug(error), cfg.error_types[i])
      [] cfg.retry_condition = "Custom" -> is_retryable(error)

\* apply_jitter with the Decorrelated draw starting from 0.
apply_jitter_decorrelated_from_zero(cfg, delay, ctx) ==
    CASE cfg.jitter.kind = "None" -> {delay}
      [] cfg.jitter.kind = "Full" -> 0..delay
      [] cfg.jitter.kind = "Half" ->
            LET base == delay \div 2 IN {base + j : j \in 0..base}
      [] cfg.jitter.kind = "Fixed" -> {delay + j : j \in 0..cfg.jitter.amount}
      [] cfg.jitter.kind = "Decorrelated" ->
            LET last_delay == IF ctx.delay_history = <<>>
                              THEN cfg.initial_delay
                              ELSE ctx.delay_history[Len(ctx.delay_history)]
            IN 0..Max(last_delay * 3, delay)

\* apply_jitter: the set of values the random draw can produce.
apply_jitter(cfg, delay, ctx) ==
    CASE cfg.jitter.kind = "None" -> {delay}
      [] cfg.jitter.kind = "Full" -> 0..delay
      [] cfg.jitter.kind = "Half" ->
            LET base == delay \div 2 IN {base + j : j \in 0..base}
      [] cfg.jitter.kind = "Fixed" -> {delay + j : j \in 0..cfg.jitter.amount}
      [] cfg.jitter.kind = "Decorrelated" ->
            LET last_delay == IF ctx.delay_history = <<>>
                              THEN cfg.initial_delay
                              ELSE ctx.delay_history[Len(ctx.delay_history)]
                min_delay == delay
                max_delay == Max(last_delay * 3, min_delay)
            IN min_delay..max_delay

\* The backoff delay with the attempt number off by one in Linear,
\* Exponential and Custom, and initial_delay as the fallback of Custom.
base_delay_off_by_one(cfg, ctx) ==
    CASE cfg.backoff.kind = "Fixed" -> cfg.initial_delay
      [] cfg.backoff.kind = "Linear" -> cfg.initial_delay * (ctx.attempt + 1)
      [] cfg.backoff.kind = "Exponential" ->
            cfg.initial_delay * Pow(cfg.backoff.multiplier, ctx.attempt)
      [] cfg.backoff.kind = "Custom" ->
            IF ctx.attempt + 1 <= Len(cfg.backoff.delays)
            THEN cfg.backoff.delays[ctx.attempt + 1]
            ELSE cfg.initial_delay

\* The backoff delay with an exhausted Custom list giving its last entry.
base_delay_custom_repeats(cfg, ctx) ==
    CASE cfg.backoff.kind = "Fixed" -> cfg.initial_delay
      [] cfg.backoff.kind = "Linear" -> cfg.initial_delay * ctx.attempt
      [] cfg.backoff.kind = "Exponential" ->
            cfg.initial_delay * Pow(cfg.backoff.multiplier, ctx.attempt - 1)
      [] cfg.backoff.kind = "Custom" ->
            cfg.backoff.delays[Min(ctx.attempt, Len(cfg.backoff.delays))]

base_delay(cfg, ctx) ==
    CASE cfg.backoff.kind = "Fixed" -> cfg.initial_delay
      [] cfg.backoff.kind = "Linear" -> cfg.initial_delay * ctx.attempt
      [] cfg.backoff.kind = "Exponential" ->
            cfg.initial_delay * Pow(cfg.backoff.multiplier, ctx.attempt - 1)
      [] cfg.backoff.kind = "Custom" ->
            IF ctx.attempt <= Len(cfg.backoff.delays)
            THEN cfg.backoff.delays[ctx.attempt]
            ELSE cfg.max_delay

\* calculate_delay without the two caps at max_delay.
calculate_delay_uncapped(cfg, ctx, error) ==
    IF cfg.respect_retry_after /\ retry_after(error) # None
    THEN {retry_after(error)}
    ELSE apply_jitter(cfg, base_delay(cfg, ctx), ctx)

\* calculate_delay that never looks at the error's retry_after.
calculate_delay_ignores_retry_after(cfg, ctx, error) ==
    {Min(j, cfg.max_delay) : j \in apply_jitter(cfg, base_delay(cfg, ctx), ctx)}

\* calculate_delay: the set of delays it can return.
calculate_delay(cfg, ctx, error) ==
    IF cfg.respect_retry_after /\ retry_after(error) # None
    THEN {Min(retry_after(error), cfg.max_delay)}
    ELSE {Min(j, cfg.max_delay) : j \in apply_jitter(cfg, base_delay(cfg, ctx), ctx)}

NoResult == [tag |-> "none", error |-> NoError]
Ok == [tag |-> "Ok", error |-> NoError]
Err(error) == [tag |-> "Err", error |-> error]

\* The default taken although an error is there.
unwrap_or_default(option, default) == default

unwrap_or(option, default) == IF option = NoError THEN default ELSE option

\* RetryExecutor::new, whatever the config: start_time is taken, no call
\* is in progress.
NewRetryExecutor ==
    /\ start_time = 0
    /\ context = NewRetryContext
    /\ last_error = NoError
    /\ rpc = "idle"
    /\ wake_at = 0
    /\ retry_ret = NoResult
    /\ retry_calls = 0
    /\ call_start = 0
    /\ invocations = 0
    /\ failures = 0

InitRetry ==
    /\ retry_config \in RetryConfigs
    /\ NewRetryExecutor

\* The top of one iteration of the for loop (lines 533-548) for `attempt`,
\* given the locals as they are when the iteration begins: the loop ends
\* when the range is exhausted, the budget test may return, and otherwise
\* the operation is invoked.
LoopTop(attempt, ctx, last, calls_made) ==
    IF ~in_attempt_range(retry_config, attempt)
    THEN /\ rpc' = "returned"
         /\ retry_ret' = Err(unwrap_or(last, InternalError))
         /\ context' = ctx
         /\ invocations' = calls_made
    ELSE LET total_elapsed == elapsed(start_time, now)
             ctx1 == [ctx EXCEPT !.attempt = attempt, !.total_elapsed = total_elapsed]
         IN /\ context' = ctx1
            /\ IF budget_exceeded(retry_config, total_elapsed)
               THEN /\ rpc' = "returned"
                    /\ retry_ret' =
                          Err(unwrap_or(last,
                                        TimeoutError(retry_config.max_total_time, FALSE)))
                    /\ invocations' = calls_made
               ELSE /\ rpc' = "operation"
                    /\ retry_ret' = NoResult
                    /\ invocations' = calls_made + 1

\* A caller enters RetryExecutor::execute: fresh locals, then attempt 1.
Execute ==
    /\ rpc = "idle"
    /\ retry_calls < MaxCalls
    /\ retry_calls' = retry_calls + 1
    /\ call_start' = now
    /\ last_error' = NoError
    /\ LoopTop(1, NewRetryContext, NoError, 0)
    /\ failures' = 0
    /\ UNCHANGED <<now, retry_config, start_time, wake_at>>
    /\ UNCHANGED <<cb_vars, provider_vars, reg_vars, rec_vars>>

\* operation().await returns Ok: execute returns it (line 549).
OperationOk ==
    /\ rpc = "operation"
    /\ rpc' = "returned"
    /\ retry_ret' = Ok
    /\ UNCHANGED <<now, retry_config, start_time, context, last_error, wake_at,
                   retry_calls, call_start, invocations, failures>>
    /\ UNCHANGED <<cb_vars, provider_vars, reg_vars, rec_vars>>

\* operation().await returns Err(error), lines 550-573.  After the last
\* attempt no delay is taken and the loop goes on to its next iteration.
OperationFails(error) ==
    /\ rpc = "operation"
    /\ failures' = failures + 1
    /\ last_error' = error
    /\ LET ctx1 == [context EXCEPT !.last_error = error]
       IN IF ~should_retry(retry_config, error)
          THEN /\ rpc' = "returned"
               /\ retry_ret' = Err(error)
               /\ context' = ctx1
               /\ wake_at' = wake_at
               /\ invocations' = invocations
          ELSE IF context.attempt < retry_config.max_attempts
          THEN \E delay \in calculate_delay(retry_config, ctx1, error) :
                  /\ context' = [ctx1 EXCEPT !.delay_history = Append(@, delay)]
                  /\ invocations' = invocations
                  /\ IF retry_config.max_total_time # None
                        /\ ctx1.total_elapsed + delay >= retry_config.max_total_time
                     THEN /\ rpc' = "returned"
                          /\ retry_ret' = Err(error)
                          /\ wake_at' = wake_at
                     ELSE /\ rpc' = "sleeping"
                          /\ retry_ret' = NoResult
                          /\ wake_at' = now + delay
          ELSE /\ LoopTop(context.attempt + 1, ctx1, error, invocations)
               /\ wake_at' = wake_at
    /\ UNCHANGED <<now, retry_config, start_time, retry_calls, call_start>>

\* The operation fails with one of OperationErrors.
OperationErr ==
    /\ \E error \in OperationErrors : OperationFails(error)
    /\ UNCHANGED <<cb_vars, provider_vars, reg_vars, rec_vars>>

\* sleep(delay).await is over: the next iteration of the loop begins.
Wake ==
    /\ rpc = "sleeping"
    /\ now >= wake_at
    /\ LoopTop(context.attempt + 1, context, last_error, invocations)
    /\ UNCHANGED <<now, retry_config, start_time, last_error, wake_at, retry_calls,
                   call_start, failures>>
    /\ UNCHANGED <<cb_vars, provider_vars, reg_vars, rec_vars>>

\* The caller takes the result of execute; the locals are gone.
TakeResult ==
    /\ rpc = "returned"
    /\ rpc' = "idle"
    /\ retry_ret' = NoResult
    /\ context' = NewRetryContext
    /\ last_error' = NoError
    /\ invocations' = 0
    /\ failures' = 0
    /\ wake_at' = 0
    /\ call_start' = 0
    /\ UNCHANGED <<now, retry_config, start_time, retry_calls>>

RetryReturn == TakeResult /\ UNCHANGED <<cb_vars, provider_vars, reg_vars, rec_vars>>

\* ------------------------------------------------------ specifications
Tick(limit) ==
    /\ now < limit
    /\ now' = now + 1

\* The breaker alone: the executor is constructed and never called.
Init ==
    /\ now = 0
    /\ method = "none"
    /\ inner_error = NoError
    /\ provider_error = NoError
    /\ NoRegistryCalls
    /\ NoRecovery
    /\ InitBreaker
    /\ InitRetry
    /\ retry_config = RetryConfig(3, 1, 3, Exponential(2), JitterFull, TRUE, 3, "Default")

BreakerTick == Tick(MaxTime) /\ UNCHANGED <<cb_vars, retry_vars, provider_vars, reg_vars, rec_vars>>

Next ==
    \/ \E t \in Threads : Call(t)
    \/ \E t \in Threads : CallBlocked(t)
    \/ \E t \in Threads : Reject(t)
    \/ \E t \in Threads : OperationCompletes(t)
    \/ \E t \in Threads : RecordSuccess(t)
    \/ \E t \in Threads : RecordFailure(t)
    \/ \E t \in Threads : RecordFailureRelock(t)
    \/ \E t \in Threads : PoisonPanic(t)
    \/ \E t \in Threads : Return(t)
    \/ ManualOpen
    \/ ManualReset
    \/ \E t \in Threads : ManualBlocked(t)
    \/ BreakerTick

Spec == Init /\ [][Next]_vars

\* The executor alone: one caller, calls one after the other.
RetryInit ==
    /\ now = 0
    /\ method = "none"
    /\ inner_error = NoError
    /\ provider_error = NoError
    /\ NoRegistryCalls
    /\ NoRecovery
    /\ InitRetry
    /\ InitBreaker
    /\ config = CircuitBreakerConfig(1, 0, 60)

RetryTick == Tick(MaxRetryTime) /\ UNCHANGED <<cb_vars, retry_vars, provider_vars, reg_vars, rec_vars>>

RetryNext ==
    \/ Execute
    \/ OperationOk
    \/ OperationErr
    \/ Wake
    \/ RetryReturn
    \/ RetryTick

RetrySpec == RetryInit /\ [][RetryNext]_vars

\* The delay computation alone: the executor over every combination of
\* backoff and jitter strategy, with no total-time budget, so that a delay is
\* computed after each failed attempt but the last whose error is retryable;
\* the clock moves only to end a sleep.
DelayAttempts == 4        \* max_attempts of these runs
MaxDelayCalls == 2        \* execute calls made on one executor in these runs

DelayBackoffs == {Fixed, Linear, Exponential(2), CustomDelays(<<1, 2>>)}
DelayJitters == {JitterNone, JitterFull, JitterHalf, JitterFixed(1), Decorrelated}
DelayInitials == {1, 2}   \* values of initial_delay
DelayCaps == {1, 3}       \* values of max_delay, below and above initial_delay

\* The errors of these runs: one without and one with a retry_after (longer
\* than the smaller max_delay, shorter than the larger).
DelayErrors == {NetworkError(TRUE), RateLimitExceeded(2)}

DelayConfigs ==
    {RetryConfig(DelayAttempts, initial, maximum, backoff, jitter, respect, None,
                 "Default") :
        initial \in DelayInitials, maximum \in DelayCaps,
        backoff \in DelayBackoffs, jitter \in DelayJitters,
        respect \in BOOLEAN}

DelayInit ==
    /\ now = 0
    /\ method = "none"
    /\ inner_error = NoError
    /\ provider_error = NoError
    /\ NoRegistryCalls
    /\ NoRecovery
    /\ InitBreaker
    /\ config = CircuitBreakerConfig(1, 0, 60)
    /\ NewRetryExecutor
    /\ retry_config \in DelayConfigs

\* sleep(delay).await: the clock reaches the end of the sleep.
Sleep ==
    /\ rpc = "sleeping"
    /\ now < wake_at
    /\ now' = wake_at
    /\ UNCHANGED <<cb_vars, retry_vars, provider_vars, reg_vars, rec_vars>>

\* One more call of execute on the same executor.
DelayExecute == retry_calls < MaxDelayCalls /\ Execute

\* The operation fails with one of DelayErrors.
DelayOperationErr == OperationErr /\ last_error' \in DelayErrors

DelayNext ==
    \/ DelayExecute
    \/ OperationOk
    \/ DelayOperationErr
    \/ Wake
    \/ RetryReturn
    \/ Sleep

DelaySpec == DelayInit /\ [][DelayNext]_vars

\* The retry decision alone: the executor under every retry condition, with
\* no total-time budget and a fixed delay, failing with errors of every
\* variant.
ConditionAttempts == 2    \* max_attempts of these runs

\* One error of each variant, both values of the retryable flag where the
\* variant has one, and a Custom error without the metadata entry
\* "retryable" and with three values of it.
KindErrors ==
    {AiError(kind, flag, None, None) : kind \in FlagKinds, flag \in BOOLEAN}
    \cup {CustomError(entry, NoProvider) : entry \in {NoEntry, "true", "false", "TRUE"}}
    \cup {AiError(kind, FALSE, None, None) : kind \in AllKinds \ (FlagKinds \cup {"Custom"})}

\* Errors whose message names another variant.
MessageErrors ==
    {WithMessage(InvalidRequest, KindName("TimeoutError")),
     WithMessage(NetworkError(FALSE), <<"saw">> \o KindName("RateLimitExceeded"))}

ConditionErrors == KindErrors \cup MessageErrors

\* Values of ErrorTypes(..): names of variants, the empty list, and a text
\* that is part of the name of several variants.
ConditionAllowlists ==
    {<<KindName("TimeoutError")>>,
     <<KindName("StreamError"), KindName("RateLimitExceeded")>>,
     <<>>,
     <<<<"Error">>>>}

ConditionConfig(condition) ==
    RetryConfig(ConditionAttempts, 1, 1, Fixed, JitterNone, FALSE, None, condition)

ConditionConfigs ==
    {ConditionConfig(condition) : condition \in {"Default", "Always", "Never", "Custom"}}
    \cup {WithErrorTypes(ConditionConfig("ErrorTypes"), types) :
            types \in ConditionAllowlists}

ConditionInit ==
    /\ now = 0
    /\ method = "none"
    /\ inner_error = NoError
    /\ provider_error = NoError
    /\ NoRegistryCalls
    /\ NoRecovery
    /\ InitBreaker
    /\ config = CircuitBreakerConfig(1, 0, 60)
    /\ NewRetryExecutor
    /\ retry_config \in ConditionConfigs

\* The operation fails with one of ConditionErrors.
ConditionOperationErr ==
    /\ \E error \in ConditionErrors : OperationFails(error)
    /\ UNCHANGED <<cb_vars, provider_vars, reg_vars, rec_vars>>

ConditionNext ==
    \/ Execute
    \/ OperationOk
    \/ ConditionOperationErr
    \/ Wake
    \/ RetryReturn
    \/ Sleep

ConditionSpec == ConditionInit /\ [][ConditionNext]_vars

\* ---------------------------------------------------- ResilientProvider
\* Errors the inner provider returns: kinds that enhance_error hands on
\* (one without a provider field, one naming another provider), a Custom
\* error, and kinds it wraps (retryable with a retry_after, and not
\* retryable).
InnerErrors ==
    {NetworkError(TRUE), ProviderError("other", FALSE),
     CustomError("true", NoProvider), ServiceUnavailable(InnerName, 2),
     InvalidRequest}

\* The provider methods that wrap the inner call.
Methods == {"complete", "complete_stream"}

\* Every method run through the retry executor.
uses_retry_always(m) == TRUE

\* Whether the operation handed to CircuitBreaker::execute is
\* retry_executor.execute (complete, line 1229) or the inner call itself
\* (complete_stream, lines 1260-1265).
uses_retry(m) == m = "complete"

\* No provider call is between its entry and its return.
Quiet == \A u \in Threads : pc[u] \in {"idle", "blocked", "deadlocked", "panicked"}

\* complete / complete_stream: circuit_breaker.execute(...) is entered; when
\* the gate admits a complete_stream call its closure invokes the inner
\* provider at once.
Enters(t, m) ==
    /\ Admit(t)
    /\ method' = m
    /\ inner_error' = NoError
    /\ provider_error' = NoError
    /\ invocations' = IF pc'[t] = "operation" /\ ~uses_retry(m) THEN 1 ELSE 0
    /\ UNCHANGED <<retry_config, start_time, context, last_error, rpc, wake_at,
                   retry_ret, retry_calls, call_start, failures>>
    /\ UNCHANGED <<reg_vars, rec_vars>>

\* Provider calls made one at a time.
ProviderCall(t, m) == Quiet /\ Enters(t, m)

ProviderCallBlocked(t) == Quiet /\ CallBlocked(t)

\* complete: the admitted operation is retry_executor.execute(...).
ProviderExecute ==
    /\ \E t \in Threads : pc[t] = "operation"
    /\ uses_retry(method)
    /\ Execute

\* complete: retry_executor.execute has returned, which is the result of
\* operation().await in CircuitBreaker::execute (line 848).
RetryDone(t) ==
    /\ uses_retry(method)
    /\ Completes(t, retry_ret.tag = "Ok")
    /\ TakeResult
    /\ provider_error' = retry_ret.error
    /\ UNCHANGED <<method, inner_error, reg_vars, rec_vars>>

ProviderRetryDone == \E t \in Threads : RetryDone(t)

\* complete: inner.complete returns an error, which goes through
\* enhance_error before the retry executor sees it (lines 1235-1238).
ProviderOperationErr ==
    /\ uses_retry(method)
    /\ \E error \in InnerErrors :
          /\ OperationFails(enhance_error(error, InnerName))
          /\ inner_error' = error
    /\ UNCHANGED <<cb_vars, method, provider_error, reg_vars, rec_vars>>

\* complete_stream: the inner complete_stream call returns; an error goes
\* through enhance_error (lines 1261-1264).
ProviderStreamDone ==
    /\ ~uses_retry(method)
    /\ \E t \in Threads :
          \/ /\ Completes(t, TRUE)
             /\ UNCHANGED <<inner_error, provider_error>>
          \/ \E error \in InnerErrors :
                /\ Completes(t, FALSE)
                /\ inner_error' = error
                /\ provider_error' = enhance_error(error, InnerName)
    /\ UNCHANGED <<retry_vars, method, reg_vars, rec_vars>>

\* The caller of the provider takes the result.
ProviderReturn(t) ==
    /\ Returns(t)
    /\ inner_error' = NoError
    /\ provider_error' = NoError
    /\ UNCHANGED <<retry_vars, method, reg_vars, rec_vars>>

\* ResilientProvider::with_config: one breaker and one executor, built
\* together.  The runs take the breaker configs with at most one probe and
\* the retry configs without jitter or with Full jitter (3 attempts under a
\* budget, 2 attempts of every error, no attempt at all).
ProviderInit ==
    /\ now = 0
    /\ method = "none"
    /\ inner_error = NoError
    /\ provider_error = NoError
    /\ NoRegistryCalls
    /\ NoRecovery
    /\ InitBreaker
    /\ config.half_open_max_requests <= 1
    /\ InitRetry
    /\ retry_config.jitter.kind \in {"None", "Full"}

ProviderNext ==
    \/ \E t \in Threads, m \in Methods : ProviderCall(t, m)
    \/ \E t \in Threads : ProviderCallBlocked(t)
    \/ \E t \in Threads : Reject(t)
    \/ ProviderExecute
    \/ OperationOk
    \/ ProviderOperationErr
    \/ Wake
    \/ ProviderRetryDone
    \/ ProviderStreamDone
    \/ \E t \in Threads : RecordSuccess(t)
    \/ \E t \in Threads : RecordFailure(t)
    \/ \E t \in Threads : RecordFailureRelock(t)
    \/ \E t \in Threads : ProviderReturn(t)
    \/ ManualOpen
    \/ ManualReset
    \/ BreakerTick

ProviderSpec == ProviderInit /\ [][ProviderNext]_vars

\* The registry alone: concurrent callers of get_or_create and
\* create_with_config; the breaker and the executor are built and never
\* called.
RegistryInit ==
    /\ now = 0
    /\ method = "none"
    /\ inner_error = NoError
    /\ provider_error = NoError
    /\ InitBreaker
    /\ config = CircuitBreakerConfig(1, 0, 60)
    /\ InitRetry
    /\ retry_config = RetryConfig(2, 1, 3, Fixed, JitterNone, TRUE, None, "Always")
    /\ InitRegistry
    /\ NoRecovery

RegistryNext ==
    \/ \E c \in Threads : RegistryCall(c)
    \/ \E c \in Threads : GetOrCreate(c)
    \/ \E c \in Threads : CreateWithConfig(c)
    \/ \E c \in Threads : RegistryReturn(c)

RegistrySpec == RegistryInit /\ [][RegistryNext]_vars

\* ------------------------------------------------------------- claims
\* A caller t takes the step that leaves position p of execute.
\* The provider under concurrent use: one caller makes complete calls,
\* which run the retry executor; the other callers make complete_stream
\* calls while a complete call is under way.  `method` and the variables of
\* the retry executor follow the complete call.
CompleteCaller == 1

SharedConfigs == {RetryConfig(2, 1, 3, Fixed, JitterNone, TRUE, None, "Always")}

SharedInit ==
    /\ now = 0
    /\ method = "none"
    /\ inner_error = NoError
    /\ provider_error = NoError
    /\ NoRegistryCalls
    /\ NoRecovery
    /\ InitBreaker
    /\ config.half_open_max_requests <= 1
    /\ retry_config \in SharedConfigs
    /\ NewRetryExecutor

\* complete: the admitted operation is retry_executor.execute(...).
SharedExecute ==
    /\ pc[CompleteCaller] = "operation"
    /\ Execute

\* complete_stream on another caller: the operation is the inner call.
SharedStreamCall(t) ==
    /\ t # CompleteCaller
    /\ Call(t)

SharedStreamDone(t) ==
    /\ t # CompleteCaller
    /\ OperationCompletes(t)

\* lock().unwrap() on a poisoned Mutex; the complete call reaches it when
\* the retry executor has returned.
SharedPoisonPanic(t) ==
    /\ (t = CompleteCaller /\ pc[t] = "operation") => rpc = "returned"
    /\ PoisonPanic(t)

SharedReturn(t) ==
    IF t = CompleteCaller THEN ProviderReturn(t) ELSE Return(t)

SharedNext ==
    \/ Enters(CompleteCaller, "complete")
    \/ \E t \in Threads : SharedStreamCall(t)
    \/ \E t \in Threads : CallBlocked(t)
    \/ \E t \in Threads : Reject(t)
    \/ SharedExecute
    \/ OperationOk
    \/ ProviderOperationErr
    \/ Wake
    \/ RetryDone(CompleteCaller)
    \/ \E t \in Threads : SharedStreamDone(t)
    \/ \E t \in Threads : RecordSuccess(t)
    \/ \E t \in Threads : RecordFailure(t)
    \/ \E t \in Threads : RecordFailureRelock(t)
    \/ \E t \in Threads : SharedPoisonPanic(t)
    \/ \E t \in Threads : SharedReturn(t)
    \/ ManualOpen
    \/ BreakerTick

SharedSpec == SharedInit /\ [][SharedNext]_vars

\* Recovery of a breaker that was opened by hand: open() is called once,
\* calls keep arriving, and an operation fails only if it was invoked
\* before open() was called.
RecoveryInit ==
    /\ now = 0
    /\ method = "none"
    /\ inner_error = NoError
    /\ provider_error = NoError
    /\ NoRegistryCalls
    /\ NoRecovery
    /\ InitBreaker
    /\ InitRetry
    /\ retry_config = RetryConfig(3, 1, 3, Exponential(2), JitterFull, TRUE, 3, "Default")

\* open() is called; the operations in flight, and those whose outcome is
\* still to be recorded, were invoked before it.
RecoveryOpen ==
    /\ ~opened
    /\ Opens
    /\ opened' = TRUE
    /\ stale' = {t \in Threads : pc[t] \in {"operation", "record"}}
    /\ UNCHANGED <<calls, retry_vars, provider_vars, reg_vars>>

\* The awaited operation completes; one invoked after open() succeeds.
RecoveryCompletes(t) ==
    /\ \E ok \in BOOLEAN :
          /\ ok \/ ~opened \/ t \in stale
          /\ Completes(t, ok)
    /\ UNCHANGED <<retry_vars, provider_vars, reg_vars, rec_vars>>

RecoveryReturn(t) ==
    /\ Returns(t)
    /\ stale' = stale \ {t}
    /\ UNCHANGED <<opened, retry_vars, provider_vars, reg_vars>>

RecoveryNext ==
    \/ \E t \in Threads : Call(t)
    \/ \E t \in Threads : CallBlocked(t)
    \/ \E t \in Threads : Reject(t)
    \/ \E t \in Threads : RecoveryCompletes(t)
    \/ \E t \in Threads : RecordSuccess(t)
    \/ \E t \in Threads : RecordFailure(t)
    \/ \E t \in Threads : RecordFailureRelock(t)
    \/ \E t \in Threads : PoisonPanic(t)
    \/ \E t \in Threads : RecoveryReturn(t)
    \/ RecoveryOpen
    \/ BreakerTick

\* Time passes, every caller that can take a step takes it, and calls keep
\* arriving while the bound on calls allows.
RecoveryFairness ==
    /\ WF_vars(BreakerTick)
    /\ \A t \in Threads :
          /\ WF_vars(Call(t))
          /\ WF_vars(Reject(t))
          /\ WF_vars(RecoveryCompletes(t))
          /\ WF_vars(RecordSuccess(t))
          /\ WF_vars(RecordFailure(t))
          /\ WF_vars(RecoveryReturn(t))

RecoverySpec == RecoveryInit /\ [][RecoveryNext]_vars /\ RecoveryFairness

Leaves(t, p) == pc[t] = p /\ pc'[t] # p

\* The entries of the history that lie inside measurement_window at instant t.
InWindow(history, t) ==
    {i \in 1..Len(history) : t - history[i].time <= config.measurement_window}

\* C1: one RetryExecutor.execute call invokes the operation at most
\* max_attempts times.
C1_AtMostMaxAttempts == invocations <= retry_config.max_attempts

C1_Witness ==
    /\ rpc = "returned"
    /\ retry_config.max_attempts >= 2
    /\ invocations = retry_config.max_attempts
    /\ retry_ret.tag = "Err"

\* C2 (Scenario B): on a fresh breaker with minimum_request_count = n >= 1
\* and failure_threshold <= 100, each of n consecutive failing calls inside
\* the window invokes its operation and returns its error (no caller is left
\* hanging or panicking), and once n failures are recorded the breaker is no
\* longer Closed, so that the next call is rejected.
C2_ScenarioB ==
    (/\ only_failures
     /\ config.minimum_request_count >= 1
     /\ config.failure_threshold <= 100
     /\ now <= config.measurement_window)
    => /\ \A t \in Threads : pc[t] \notin {"deadlocked", "panicked", "blocked"}
       /\ ((\A t \in Threads : pc[t] # "record")
           /\ Len(request_history) >= config.minimum_request_count)
          => state.tag # "Closed"

\* C3: recording an outcome on a Closed breaker moves it to Open if and only
\* if, with that outcome included, the outcomes inside measurement_window
\* number at least minimum_request_count and their failure rate is >=
\* failure_threshold.
C3_ShouldOpen ==
    LET inside == InWindow(request_history, now)
        failed == {i \in inside : ~request_history[i].ok}
    IN /\ Cardinality(inside) >= config.minimum_request_count
       /\ Cardinality(inside) > 0
       /\ RateAtLeast(Cardinality(failed), Cardinality(inside),
                      config.failure_threshold)

C3_OpensIffRateReached ==
    [][\A t \in Threads :
          (Leaves(t, "record") /\ state.tag = "Closed")
          => ((state'.tag = "Open") <=> C3_ShouldOpen)]_vars

\* C4: while the breaker is Open and less than recovery_timeout has elapsed
\* since opened_at, a call that arrives is rejected by the gate, leaves the
\* state as it is, never invokes its operation, and the only result it
\* returns is CircuitBreakerOpen.
C4_OpenRejects ==
    [][\A t \in Threads :
          /\ (/\ Leaves(t, "idle")
              /\ state.tag = "Open"
              /\ now - state.opened_at < config.recovery_timeout)
             => (pc'[t] = "rejected" /\ state' = state)
          /\ Leaves(t, "rejected")
             => (pc'[t] # "operation"
                 /\ (pc'[t] = "returned" => ret'[t].kind = "CircuitBreakerOpen"))]_vars

C4_Witness ==
    \E t \in Threads :
        /\ pc[t] = "returned"
        /\ ret[t].kind = "CircuitBreakerOpen"
        /\ outcome[t] = "none"
        /\ state.tag = "Open"
        /\ now - state.opened_at < config.recovery_timeout

\* C5: the call that arrives when the breaker is Open and now - opened_at >=
\* recovery_timeout moves it to HalfOpen with attempts = 0, successes = 0
\* and the same opened_at, and its operation is invoked.
C5_FirstProbe ==
    [][\A t \in Threads :
          (/\ Leaves(t, "idle")
           /\ state.tag = "Open"
           /\ now - state.opened_at >= config.recovery_timeout)
          => (state' = HalfOpen(state.opened_at, 0, 0) /\ pc'[t] = "operation")]_vars

C5_Witness ==
    \E t \in Threads :
        /\ pc[t] = "operation"
        /\ request_time[t] = now
        /\ state.tag = "HalfOpen"
        /\ state.attempts = 0
        /\ probes_admitted = 1
        /\ now - state.opened_at >= config.recovery_timeout

\* C6: a failure recorded while the breaker is HalfOpen leaves it Open with
\* opened_at = now, whatever attempts and successes are; the probe counters
\* are gone with the HalfOpen state.
C6_HalfOpenFailureReopens ==
    [][\A t \in Threads :
          (Leaves(t, "record") /\ outcome[t] = "err" /\ state.tag = "HalfOpen")
          => (state' = Open(now) /\ pc'[t] = "returned" /\ ret'[t] = ReturnErr)]_vars

C6_Witness ==
    \E t \in Threads :
        /\ pc[t] = "returned"
        /\ ret[t] = ReturnErr
        /\ state = Open(now)
        /\ probes_admitted >= 1
        /\ config.success_threshold <= 100

\* C7, as stated: a success recorded while HalfOpen closes the breaker only
\* when it brings attempts to exactly half_open_max_requests with a success
\* rate >= success_threshold; at that count with a lower rate the breaker
\* goes to Open{now}; below that count it stays HalfOpen with attempts and
\* successes incremented.
C7_ClosesAtExactlyMax ==
    [][\A t \in Threads :
          (Leaves(t, "record") /\ outcome[t] = "ok" /\ state.tag = "HalfOpen")
          => LET new_attempts == state.attempts + 1
                 new_successes == state.successes + 1
                 rate_ok == RateAtLeast(new_successes, new_attempts,
                                        config.success_threshold)
             IN /\ state'.tag = "Closed"
                   => (new_attempts = config.half_open_max_requests /\ rate_ok)
                /\ (new_attempts = config.half_open_max_requests /\ ~rate_ok)
                   => state' = Open(now)
                /\ new_attempts < config.half_open_max_requests
                   => state' = HalfOpen(state.opened_at, new_attempts, new_successes)]_vars

\* C7, amended: the closing recording brings attempts to at least
\* half_open_max_requests: exactly half_open_max_requests when that is >= 1,
\* and 1 when it is 0.
C7_ClosesAtMax ==
    [][\A t \in Threads :
          (Leaves(t, "record") /\ outcome[t] = "ok" /\ state.tag = "HalfOpen")
          => LET new_attempts == state.attempts + 1
                 new_successes == state.successes + 1
                 rate_ok == RateAtLeast(new_successes, new_attempts,
                                        config.success_threshold)
                 at_max == IF config.half_open_max_requests >= 1
                           THEN new_attempts = config.half_open_max_requests
                           ELSE new_attempts = 1
             IN /\ new_attempts <= config.half_open_max_requests \/ new_attempts = 1
                /\ state'.tag = "Closed" => (at_max /\ rate_ok)
                /\ (at_max /\ ~rate_ok) => state' = Open(now)
                /\ new_attempts < config.half_open_max_requests
                   => state' = HalfOpen(state.opened_at, new_attempts, new_successes)]_vars

C7_Witness ==
    \E t \in Threads :
        /\ pc[t] = "returned"
        /\ ret[t] = ReturnOk
        /\ state = Closed
        /\ request_history = <<>>
        /\ probes_admitted = config.half_open_max_requests
        /\ config.half_open_max_requests = 2

\* C8: during one HalfOpen episode at most half_open_max_requests calls are
\* admitted, also with concurrent callers (stated for a limit of at least
\* one probe; with a limit of 0 the first probe alone exceeds it).
C8_ProbeLimit ==
    (state.tag = "HalfOpen" /\ config.half_open_max_requests >= 1)
    => probes_admitted <= config.half_open_max_requests

\* C9, as stated: with max_total_time set, a call has returned by the time
\* max_total_time has elapsed since it began.
C9_ReturnsWithinBudget ==
    (retry_config.max_total_time # None /\ rpc \in {"operation", "sleeping"})
    => now - call_start <= retry_config.max_total_time

\* C9, amended: with max_total_time set, no attempt is started once
\* max_total_time has elapsed since the call began (an attempt in flight is
\* not aborted, so the call itself can outlast the budget).
C9_NoAttemptPastBudget ==
    [][(retry_config.max_total_time # None /\ rpc # "operation" /\ rpc' = "operation")
       => now - call_start' < retry_config.max_total_time]_vars

C9_Witness ==
    /\ rpc = "returned"
    /\ retry_ret.tag = "Err"
    /\ retry_config.max_total_time # None
    /\ context.total_elapsed >= retry_config.max_total_time
    /\ invocations >= 1
    /\ invocations < retry_config.max_attempts

\* C10: the retry state of a call is fresh: the elapsed time compared with
\* max_total_time is the time since this call began, so a call made at any
\* time after construction, with at least one attempt allowed and a budget
\* above zero, invokes its operation.
C10_FreshBudgetPerCall ==
    [][(rpc = "idle" /\ rpc' # "idle")
       => /\ context'.total_elapsed = now - call_start'
          /\ (retry_config.max_attempts >= 1
              /\ (retry_config.max_total_time = None \/ retry_config.max_total_time > 0))
             => rpc' = "operation"]_vars

\* The retry condition of cfg accepts the error (Default and Custom ask the
\* error, Always takes every error, Never none).
Accepted(cfg, error) ==
    \/ cfg.retry_condition = "Always"
    \/ cfg.retry_condition \in {"Default", "Custom"} /\ is_retryable(error)

\* The time an execute call has before the executor's total-time test
\* fires: max_total_time less the time since the executor was constructed
\* (for a call that begins at construction, the time since the call began).
BudgetLeft(extra) ==
    \/ retry_config.max_total_time = None
    \/ (now - start_time) + extra < retry_config.max_total_time

\* The delay computed in the step from ctx to next: the entry delay_history
\* gained, 0 when it gained none.
LastDelay(ctx, next) ==
    IF Len(next.delay_history) > Len(ctx.delay_history)
    THEN next.delay_history[Len(next.delay_history)]
    ELSE 0

\* C11: an invocation that returns Ok ends the call with Ok after exactly
\* failures + 1 invocations; an invocation that fails with an accepted error,
\* with fewer than max_attempts invocations made and the total-time budget
\* not exhausted, is followed by a sleep and then by one more invocation.
\* So k accepted failures followed by a success, k < max_attempts, give
\* exactly k + 1 invocations and Ok.
C11_RetriesUntilSuccess ==
    [][/\ (rpc = "operation" /\ rpc' # "operation" /\ failures' = failures)
          => /\ rpc' = "returned"
             /\ retry_ret' = Ok
             /\ invocations' = failures + 1
             /\ failures < retry_config.max_attempts
       /\ (/\ rpc = "operation"
           /\ failures' = failures + 1
           /\ Accepted(retry_config, last_error')
           /\ failures' < retry_config.max_attempts
           /\ BudgetLeft(LastDelay(context, context')))
          => (rpc' = "sleeping" /\ invocations' = invocations)
       /\ (rpc = "sleeping" /\ rpc' # "sleeping" /\ BudgetLeft(0))
          => (rpc' = "operation" /\ invocations' = invocations + 1)]_vars

C11_Witness ==
    /\ rpc = "returned"
    /\ retry_ret = Ok
    /\ failures = 2
    /\ invocations = 3

\* C12: with retry_condition Default, an invocation that returns an error
\* whose is_retryable() is false ends the call at once with that same error:
\* no delay is computed or slept and the operation is not invoked again.
C12_NonRetryableReturnsAtOnce ==
    [][(/\ rpc = "operation"
        /\ failures' = failures + 1
        /\ retry_config.retry_condition = "Default"
        /\ ~is_retryable(last_error'))
       => /\ rpc' = "returned"
          /\ retry_ret' = Err(last_error')
          /\ context'.delay_history = context.delay_history
          /\ wake_at' = wake_at
          /\ invocations' = invocations]_vars

C12_Witness ==
    /\ rpc = "returned"
    /\ retry_config.retry_condition = "Default"
    /\ retry_ret = Err(NetworkError(FALSE))
    /\ invocations = 2
    /\ invocations < retry_config.max_attempts
    /\ Len(context.delay_history) = 1

\* C13: when execute gives up (attempts or total time exhausted) after at
\* least one invocation, the error it returns is the error of the most
\* recent invocation; the synthesized TimeoutError{max_total_time,
\* retryable: false} is returned only by a call that never invoked the
\* operation.
C13_LastErrorSurfaces ==
    [][(rpc # "returned" /\ rpc' = "returned" /\ retry_ret'.tag = "Err")
       => /\ invocations' >= 1
             => /\ retry_ret'.error = last_error'
                /\ last_error' \in OperationErrors
                /\ (failures' = failures + 1
                     \/ (rpc = "sleeping" /\ last_error' = last_error))
          /\ (invocations' = 0 /\ retry_config.max_attempts >= 1)
             => /\ retry_config.max_total_time # None
                /\ retry_ret'.error =
                      TimeoutError(retry_config.max_total_time, FALSE)]_vars

\* The call gives up at the top of its second or third attempt, after a sleep.
C13_Witness ==
    /\ rpc = "returned"
    /\ retry_ret.tag = "Err"
    /\ retry_ret.error = last_error
    /\ invocations >= 1
    /\ Len(context.delay_history) >= 1
    /\ retry_config.max_total_time # None
    /\ context.total_elapsed >= retry_config.max_total_time

\* The synthesized timeout: the budget is gone before the first attempt.
C13_WitnessSynthesized ==
    /\ rpc = "returned"
    /\ invocations = 0
    /\ retry_config.max_attempts >= 1
    /\ retry_ret = Err(TimeoutError(retry_config.max_total_time, FALSE))

\* C14: every delay calculate_delay can return, every entry of
\* delay_history and every sleep of the retry loop is <= max_delay, for every
\* backoff strategy, jitter strategy, attempt and error (with and without a
\* retry_after).
C14_DelayAtMostMaxDelay ==
    /\ \A i \in 1..Len(context.delay_history) :
          context.delay_history[i] <= retry_config.max_delay
    /\ rpc = "sleeping" => wake_at - now <= retry_config.max_delay
    /\ context.attempt >= 1
       => \A error \in OperationErrors :
             \A delay \in calculate_delay(retry_config, context, error) :
                delay >= 0 /\ delay <= retry_config.max_delay

\* The cap at work: the backoff delay of the attempt is above max_delay and
\* the executor sleeps max_delay.
C14_Witness ==
    /\ rpc = "sleeping"
    /\ context.attempt >= 2
    /\ base_delay(retry_config, context) > retry_config.max_delay
    /\ wake_at - now = retry_config.max_delay
    /\ context.delay_history[Len(context.delay_history)] = retry_config.max_delay

\* The step in which an invocation fails and a delay is due: the error is
\* retryable and the attempt is not the last.
DelayDue ==
    /\ rpc = "operation"
    /\ failures' = failures + 1
    /\ context.attempt < retry_config.max_attempts
    /\ Accepted(retry_config, last_error')

\* C15: when respect_retry_after is true and the error of the failed attempt
\* carries a retry_after, the delay before the next attempt is exactly
\* min(retry_after, max_delay), whatever the backoff and jitter strategies;
\* when respect_retry_after is false the delays the executor can take are
\* those of the same error without its retry_after.
C15_RetryAfterRespected ==
    [][DelayDue
       => LET error == last_error'
              delay == LastDelay(context, context')
          IN /\ Len(context'.delay_history) = Len(context.delay_history) + 1
             /\ (retry_config.respect_retry_after /\ error.retry_after # None)
                => (/\ delay = Min(error.retry_after, retry_config.max_delay)
                    /\ rpc' = "sleeping"
                    /\ wake_at' = now + delay)
             /\ ~retry_config.respect_retry_after
                => (/\ calculate_delay(retry_config, context, error)
                         = calculate_delay(retry_config, context,
                                           [error EXCEPT !.retry_after = None])
                    /\ delay \in calculate_delay(retry_config, context,
                                                  [error EXCEPT !.retry_after = None]))]_vars

\* A retry_after of 2 with max_delay 1, under a backoff and a jitter that
\* would give another delay.
C15_Witness ==
    /\ rpc = "sleeping"
    /\ retry_config.respect_retry_after
    /\ last_error = RateLimitExceeded(2)
    /\ retry_config.max_delay = 1
    /\ retry_config.backoff.kind = "Linear"
    /\ retry_config.jitter.kind = "Fixed"
    /\ context.delay_history[Len(context.delay_history)] = 1
    /\ wake_at = now + 1

\* The same retry_after under max_delay 3: the delay is the retry_after.
C15_WitnessUncapped ==
    /\ rpc = "sleeping"
    /\ retry_config.respect_retry_after
    /\ last_error = RateLimitExceeded(2)
    /\ retry_config.max_delay = 3
    /\ retry_config.initial_delay = 1
    /\ retry_config.backoff.kind = "Fixed"
    /\ retry_config.jitter.kind = "None"
    /\ wake_at = now + 2

\* The delay is computed by the backoff alone: no jitter, and no retry_after
\* that is respected.
BackoffAlone(error) ==
    /\ retry_config.jitter.kind = "None"
    /\ ~retry_config.respect_retry_after \/ error.retry_after = None

C16_WitnessLinear ==
    /\ rpc = "sleeping"
    /\ retry_config.backoff = Linear
    /\ retry_config.jitter.kind = "None"
    /\ ~retry_config.respect_retry_after
    /\ retry_config.initial_delay = 1
    /\ retry_config.max_delay = 3
    /\ context.delay_history = <<1, 2, 3>>

\* C17: with Custom(list) backoff the base delay after failed attempt a is
\* list[a-1] (the a-th entry) when a <= len(list) and max_delay when a >
\* len(list); an attempt past the end of the list does not fail the call,
\* which goes on to sleep and to its next attempt.
C17_CustomListExhausted ==
    [][(DelayDue /\ retry_config.backoff.kind = "Custom")
       => LET a == context.attempt
              list == retry_config.backoff.delays
              base == IF a <= Len(list) THEN list[a] ELSE retry_config.max_delay
          IN /\ base_delay(retry_config, context) = base
             /\ rpc' = "sleeping"
             /\ Len(context'.delay_history) = a
             /\ BackoffAlone(last_error')
                => LastDelay(context, context') = Min(base, retry_config.max_delay)]_vars

\* The list <<1, 2>> under max_delay 3 and max_attempts 4: the third failed
\* attempt is past the end of the list, takes max_delay, and the fourth
\* attempt is made.
C17_Witness ==
    /\ rpc = "operation"
    /\ retry_config.backoff = CustomDelays(<<1, 2>>)
    /\ retry_config.jitter.kind = "None"
    /\ retry_config.max_delay = 3
    /\ context.attempt = 4
    /\ context.delay_history = <<1, 2, 3>>

\* The Decorrelated draw decides the delay: no retry_after that is respected.
DecorrelatedDue ==
    /\ DelayDue
    /\ retry_config.jitter.kind = "Decorrelated"
    /\ ~retry_config.respect_retry_after \/ last_error'.retry_after = None

\* last_delay of the Decorrelated draw: the most recent entry of
\* delay_history, initial_delay while there is none.
LastDelayOf(ctx) ==
    IF ctx.delay_history = <<>>
    THEN retry_config.initial_delay
    ELSE ctx.delay_history[Len(ctx.delay_history)]

\* delay_history of a call starts empty and gains one entry, at its end, for
\* each delay computed, and changes in no other way while the call runs.
DelayHistoryKept ==
    /\ (rpc = "idle" /\ rpc' # "idle") => context'.delay_history = <<>>
    /\ (rpc # "idle" /\ rpc' # "idle")
       => \/ context'.delay_history = context.delay_history
          \/ /\ DelayDue
             /\ Len(context'.delay_history) = Len(context.delay_history) + 1
             /\ SubSeq(context'.delay_history, 1, Len(context.delay_history))
                   = context.delay_history
    /\ DelayDue => Len(context'.delay_history) = Len(context.delay_history) + 1

\* C18, as stated: with Decorrelated jitter the delay the executor uses
\* after a failed attempt lies in [min_delay, max(last_delay*3, min_delay)],
\* min_delay being the backoff delay of the attempt; delay_history starts
\* empty in every call and gains one entry per delay computed.
C18_DecorrelatedRange ==
    [][/\ DecorrelatedDue
          => LET min_delay == base_delay(retry_config, context)
                 delay == LastDelay(context, context')
             IN /\ delay >= min_delay
                /\ delay <= Max(LastDelayOf(context) * 3, min_delay)
       /\ DelayHistoryKept]_vars

\* C18, amended: the delay the executor uses is the Decorrelated draw capped
\* at max_delay, so it lies in [min(min_delay, max_delay),
\* min(max(last_delay*3, min_delay), max_delay)].
C18_DecorrelatedRangeCapped ==
    [][/\ DecorrelatedDue
          => LET min_delay == base_delay(retry_config, context)
                 delay == LastDelay(context, context')
             IN /\ delay >= Min(min_delay, retry_config.max_delay)
                /\ delay <= Min(Max(LastDelayOf(context) * 3, min_delay),
                                retry_config.max_delay)
       /\ DelayHistoryKept]_vars

\* The second call on an executor: its delay_history holds only its own two
\* delays, the second drawn at three times the first.
C18_Witness ==
    /\ rpc = "sleeping"
    /\ retry_calls = 2
    /\ retry_config.jitter.kind = "Decorrelated"
    /\ retry_config.backoff.kind = "Fixed"
    /\ retry_config.initial_delay = 1
    /\ retry_config.max_delay = 3
    /\ last_error = NetworkError(TRUE)
    /\ context.delay_history = <<1, 3>>

\* C19: when the breaker rejects a complete call, the inner provider is not
\* invoked for that call (the retry executor is not even entered), the call
\* returns CircuitBreakerOpen with retry_after = recovery_timeout, and the
\* call ends there: the error does not pass through the retry executor.
C19_RejectedCompleteIsTerminal ==
    [][\A t \in Threads :
          /\ (pc[t] = "idle" /\ pc'[t] = "rejected" /\ method' = "complete")
             => (invocations' = 0 /\ rpc' = "idle")
          /\ (Leaves(t, "rejected") /\ method = "complete")
             => /\ pc'[t] = "returned"
                /\ ret'[t].kind = "CircuitBreakerOpen"
                /\ ret'[t].retry_after = config.recovery_timeout
                /\ invocations' = 0
                /\ rpc' = "idle"
                /\ retry_calls' = retry_calls
                /\ outcome'[t] = "none"
                /\ request_history' = request_history
          /\ (/\ Leaves(t, "returned")
              /\ ret[t].kind = "CircuitBreakerOpen"
              /\ method = "complete")
             => (pc'[t] = "idle" /\ invocations' = 0 /\ rpc' = "idle"
                 /\ retry_calls' = retry_calls)]_vars

\* A complete call rejected under a policy that retries every error, on a
\* provider whose earlier call did reach the inner provider.
C19_Witness ==
    \E t \in Threads :
        /\ pc[t] = "returned"
        /\ method = "complete"
        /\ ret[t].kind = "CircuitBreakerOpen"
        /\ ret[t].retry_after = config.recovery_timeout
        /\ state.tag = "Open"
        /\ retry_config.retry_condition = "Always"
        /\ retry_calls >= 1
        /\ invocations = 0

\* C20: one complete_stream call invokes the inner provider at most once,
\* whatever the result and the retry policy: the retry executor is not
\* entered.  The call is gated by the breaker (a rejected call makes no
\* invocation and returns CircuitBreakerOpen) and its result is recorded as
\* one outcome of the breaker, stamped with the instant the call was
\* admitted.
C20_StreamInvokedOnce ==
    [][method' = "complete_stream"
       => /\ invocations' <= 1
          /\ rpc' = "idle"
          /\ retry_calls' = retry_calls
          /\ \A t \in Threads :
                /\ (pc[t] = "idle" /\ pc'[t] \in {"operation", "rejected"})
                   => /\ (pc'[t] = "operation") = allow_request(config, state, now).allowed
                      /\ invocations' = IF pc'[t] = "operation" THEN 1 ELSE 0
                /\ Leaves(t, "rejected")
                   => (pc'[t] = "returned" /\ ret'[t].kind = "CircuitBreakerOpen"
                       /\ invocations' = 0)
                /\ (Leaves(t, "operation") /\ pc'[t] = "record")
                   => /\ invocations' = 1
                      /\ outcome'[t] \in {"ok", "err"}
                      /\ request_history' # <<>>
                      /\ request_history'[Len(request_history')]
                            = [ok |-> outcome'[t] = "ok", time |-> request_time[t]]
                      /\ Len(request_history') <= Len(request_history) + 1
                /\ Leaves(t, "record")
                   => Len(request_history') <= Len(request_history)]_vars

\* A complete_stream call whose one invocation failed, under a policy that
\* retries every error, returns the error with one outcome recorded.
C20_Witness ==
    \E t \in Threads :
        /\ pc[t] = "returned"
        /\ method = "complete_stream"
        /\ ret[t] = ReturnErr
        /\ outcome[t] = "err"
        /\ retry_config.retry_condition = "Always"
        /\ retry_config.max_attempts >= 2
        /\ invocations = 1
        /\ request_history # <<>>
        /\ ~request_history[Len(request_history)].ok

\* C21: in every reachable state no entry of the outcome history is older
\* than measurement_window at the current instant.
C21_HistoryInsideWindow ==
    \A i \in 1..Len(request_history) :
        now - request_history[i].time <= config.measurement_window

\* history' is history with some entries dropped from its front and the one
\* entry appended.
AppendsOne(history, after, entry) ==
    \E k \in 1..(Len(history) + 1) :
        after = Append(SubSeq(history, k, Len(history)), entry)

\* C22: an admitted operation that completes appends exactly one entry,
\* stamped with its request time and matching its result, whatever the state
\* of the breaker at that moment; a rejected call appends nothing and leaves
\* state and history as they are.
C22_AdmittedOutcomeRecorded ==
    [][\A t \in Threads :
          /\ Leaves(t, "operation")
             => /\ pc'[t] = "record"
                /\ outcome'[t] \in {"ok", "err"}
                /\ AppendsOne(request_history, request_history',
                              [ok |-> outcome'[t] = "ok", time |-> request_time[t]])
          /\ (Leaves(t, "idle") /\ pc'[t] = "rejected")
             => (state' = state /\ request_history' = request_history)
          /\ Leaves(t, "rejected")
             => (state' = state /\ request_history' = request_history)]_vars

\* A change of state that the rules of the breaker allow.
PermittedChange(old, new) ==
    \/ old.tag = "Closed" /\ new.tag = "Open"
    \/ old.tag = "Open" /\ new.tag = "HalfOpen"
    \/ /\ old.tag = "HalfOpen"
       /\ new = HalfOpen(old.opened_at, old.attempts + 1, old.successes + 1)
    \/ old.tag = "HalfOpen" /\ new.tag = "Open"
    \/ old.tag = "HalfOpen" /\ new.tag = "Closed"

\* C23: a step of an execute call (one that moves a caller) changes the state
\* of the breaker only by Closed->Open, Open->HalfOpen, HalfOpen->HalfOpen
\* with both counters incremented, HalfOpen->Open or HalfOpen->Closed; and
\* the recording of an outcome while the breaker is Open leaves the state,
\* opened_at included, as it is.
C23_OnlyRuleTransitions ==
    [][\A t \in Threads :
          /\ (pc'[t] # pc[t] /\ state' # state) => PermittedChange(state, state')
          /\ ((Leaves(t, "operation") \/ Leaves(t, "record")) /\ state.tag = "Open")
             => state' = state]_vars

\* A success has been recorded in HalfOpen below the probe limit.
C23_Witness ==
    \E t \in Threads :
        /\ pc[t] = "returned"
        /\ ret[t] = ReturnOk
        /\ state.tag = "HalfOpen"
        /\ state.attempts = 1
        /\ state.successes = 1

\* C24: in the state that follows a change from HalfOpen to Closed the
\* outcome history is empty: whatever was recorded before the breaker closed,
\* failures included, is gone.
C24_ClosingClearsHistory ==
    [][(state.tag = "HalfOpen" /\ state'.tag = "Closed")
       => request_history' = <<>>]_vars

\* Two probes were in flight; the failure of one was recorded, then the
\* success of the other closed the breaker and emptied the history.
C24_Witness ==
    \E t, u \in Threads :
        /\ pc[t] = "returned" /\ ret[t] = ReturnOk
        /\ pc[u] = "returned" /\ ret[u] = ReturnErr
        /\ state = Closed
        /\ request_history = <<>>
        /\ probes_admitted >= 2

\* The breakers created for a service name so far.
CreatedFor(created, service_name) ==
    {i \in 1..Len(created) : created[i].service_name = service_name}

\* C25: get_or_create(name) returns the breaker stored for name, or creates
\* one with default_config, stores it and returns it, and leaves the entries
\* of the other names alone; as long as only get_or_create has been called
\* for a name, at most one breaker has been created for it and every caller
\* that has returned holds that breaker, whatever the interleaving.
C25_GetOrCreateOnce ==
    [][/\ \A c \in Threads :
            (/\ registry_callers[c].pc = "called"
             /\ registry_callers[c].method = "get_or_create"
             /\ registry_callers'[c].pc = "returned")
            => LET name == registry_callers[c].service_name
               IN /\ IF breakers[name] # 0
                     THEN /\ registry_callers'[c].ret = breakers[name]
                          /\ instances' = instances
                          /\ breakers' = breakers
                     ELSE /\ Len(instances') = Len(instances) + 1
                          /\ instances'[Len(instances')] =
                                [service_name |-> name, config |-> default_config,
                                 origin |-> "get_or_create"]
                          /\ breakers'[name] = Len(instances')
                          /\ registry_callers'[c].ret = Len(instances')
                  /\ \A n \in ServiceNames \ {name} : breakers'[n] = breakers[n]
       /\ \A name \in ServiceNames :
            (\A i \in CreatedFor(instances', name) :
                instances'[i].origin = "get_or_create")
            => /\ Cardinality(CreatedFor(instances', name)) <= 1
               /\ \A c \in Threads :
                     (/\ registry_callers'[c].pc = "returned"
                      /\ registry_callers'[c].service_name = name)
                     => /\ breakers'[name] # 0
                        /\ registry_callers'[c].ret = breakers'[name]]_vars

\* Two callers of get_or_create with the same name hold the same, only
\* breaker of that name, while the other name has a breaker of its own.
C25_Witness ==
    \E c, d \in Threads, name \in ServiceNames :
        /\ c # d
        /\ registry_callers[c].pc = "returned"
        /\ registry_callers[d].pc = "returned"
        /\ registry_callers[c].method = "get_or_create"
        /\ registry_callers[d].method = "get_or_create"
        /\ registry_callers[c].service_name = name
        /\ registry_callers[d].service_name = name
        /\ registry_callers[c].ret = registry_callers[d].ret
        /\ registry_callers[c].ret = breakers[name]
        /\ Cardinality(CreatedFor(instances, name)) = 1
        /\ \E other \in ServiceNames \ {name} : breakers[other] # 0

\* The error names the inner provider: provider() returns its name, or the
\* metadata of a Custom error holds provider = its name.
Attributed(error) ==
    \/ provider(error) = InnerName
    \/ error.kind = "Custom" /\ error.provider = InnerName

\* This step is the inner provider returning an error, from complete (inside
\* the retry executor) or from complete_stream.
InnerFails ==
    /\ inner_error' # NoError
    /\ \/ uses_retry(method) /\ failures' = failures + 1
       \/ ~uses_retry(method) /\ \E t \in Threads : Leaves(t, "operation")

\* What the step hands on: the error the retry decision is made on
\* (complete), or the error given to the caller (complete_stream).
HandedOn == IF uses_retry(method) THEN last_error' ELSE provider_error'

\* complete returns the error of its last inner call to the caller.
CallerGetsLastError ==
    (uses_retry(method) /\ rpc = "returned" /\ rpc' = "idle"
     /\ retry_ret.tag = "Err" /\ failures >= 1)
    => provider_error' = last_error

\* C26, as stated: every error the inner provider returns reaches the retry
\* decision and the caller naming the inner provider, whatever its kind.
C26_EveryErrorAttributed ==
    [][/\ InnerFails => Attributed(HandedOn)
       /\ CallerGetsLastError]_vars

\* C26, amended: a Custom error gets the metadata entry provider = the inner
\* provider's name; NetworkError, TimeoutError, RateLimitExceeded,
\* InvalidApiKey and ProviderError are handed on as the inner provider made
\* them; every other kind is replaced by a ProviderError that names the
\* inner provider and keeps is_retryable() in its retryable flag.
C26_ErrorEnhanced ==
    [][/\ InnerFails
          => LET e == inner_error'
                 h == HandedOn
             IN /\ e.kind \in PassThroughKinds => h = e
                /\ e.kind = "Custom"
                   => (h = [e EXCEPT !.provider = InnerName] /\ Attributed(h))
                /\ e.kind \notin (PassThroughKinds \cup {"Custom"})
                   => /\ h.kind = "ProviderError"
                      /\ provider(h) = InnerName
                      /\ h.retryable = is_retryable(e)
                      /\ retry_after(h) = None
       /\ CallerGetsLastError]_vars

\* complete has returned the ProviderError made of a ServiceUnavailable
\* error of the inner provider.
C26_Witness ==
    \E t \in Threads :
        /\ pc[t] = "returned"
        /\ method = "complete"
        /\ inner_error = ServiceUnavailable(InnerName, 2)
        /\ provider_error = ProviderError(InnerName, TRUE)

\* complete_stream has returned a Custom error with the provider entry added.
C26_WitnessStream ==
    \E t \in Threads :
        /\ pc[t] = "returned"
        /\ method = "complete_stream"
        /\ inner_error = CustomError("true", NoProvider)
        /\ provider_error = CustomError("true", InnerName)

\* An attempt that is not the last one of its call fails in this step, with
\* no total-time budget in the way: the retry condition alone decides.
DecisionMade ==
    /\ failures' = failures + 1
    /\ context.attempt < retry_config.max_attempts
    /\ retry_config.max_total_time = None

\* The decision was to go on: the call sleeps before its next attempt.
Retried == rpc' = "sleeping"

\* The kinds the classification names as not retryable.
NotRetryableKinds ==
    {"InvalidApiKey", "AuthenticationFailed", "ApiKeyExpired", "InvalidRequest",
     "ContentFiltered", "TokenLimitExceeded", "SerializationError", "JsonError",
     "ConfigurationError", "MissingConfiguration", "CircuitBreakerOpen"}

\* C27, as stated: under the Default condition the decision depends on the
\* error alone: retry for network, timeout, rate-limit, service-unavailable
\* and stream-interrupted kinds, no retry for auth, validation,
\* content-filter, token-limit, serialization and configuration kinds and
\* for CircuitBreakerOpen, and for Custom retry exactly when the metadata
\* maps retryable to "true".
C27_KindsRetryable ==
    [][(DecisionMade /\ retry_config.retry_condition = "Default")
       => LET e == last_error'
          IN /\ e.kind \in {"NetworkError", "TimeoutError", "ConnectionRefused",
                            "RateLimitExceeded", "ServiceUnavailable",
                            "StreamInterrupted"}
                => Retried
             /\ e.kind \in NotRetryableKinds => ~Retried
             /\ e.kind = "Custom" => (Retried <=> e.metadata_retryable = "true")]_vars

\* C27, amended: for NetworkError and TimeoutError the decision is the
\* retryable flag the error carries; the other kinds are as stated.
C27_FlagOrKind ==
    [][(DecisionMade /\ retry_config.retry_condition = "Default")
       => LET e == last_error'
          IN /\ e.kind \in {"NetworkError", "TimeoutError"}
                => (Retried <=> e.retryable)
             /\ e.kind \in {"ConnectionRefused", "RateLimitExceeded",
                            "ServiceUnavailable", "StreamInterrupted"}
                => Retried
             /\ e.kind \in NotRetryableKinds => ~Retried
             /\ e.kind = "Custom" => (Retried <=> e.metadata_retryable = "true")]_vars

\* A NetworkError whose flag is false was returned after one attempt.
C27_Witness ==
    /\ rpc = "returned"
    /\ retry_config.retry_condition = "Default"
    /\ retry_config.max_attempts >= 2
    /\ invocations = 1
    /\ retry_ret = Err(NetworkError(FALSE))

\* A Custom error marked retryable is being retried, one marked "TRUE" was
\* returned.
C27_WitnessCustom ==
    /\ retry_config.retry_condition = "Default"
    /\ \/ rpc = "sleeping" /\ last_error = CustomError("true", NoProvider)
       \/ /\ rpc = "returned" /\ invocations = 1
          /\ retry_ret = Err(CustomError("TRUE", NoProvider))

\* C28: the decision after a failed attempt that is not the last follows
\* retry_condition: Always goes on whatever the error (and the sleep is
\* followed by the next invocation); Never returns the error of the first
\* attempt, the only invocation of the call; Custom decides as Default
\* does, by is_retryable.
C28_ConditionDecides ==
    [][/\ DecisionMade
          => LET e == last_error'
             IN /\ retry_config.retry_condition = "Always" => Retried
                /\ retry_config.retry_condition = "Never"
                   => (rpc' = "returned" /\ retry_ret' = Err(e) /\ invocations' = 1)
                /\ retry_config.retry_condition \in {"Custom", "Default"}
                   => (Retried <=> is_retryable(e))
                /\ ~Retried => (rpc' = "returned" /\ retry_ret' = Err(e))
       /\ (rpc = "sleeping" /\ rpc' # "sleeping"
           /\ retry_config.max_total_time = None)
          => (rpc' = "operation" /\ invocations' = invocations + 1)]_vars

\* Under Always the second attempt is running after an error that is not
\* retryable.
C28_Witness ==
    /\ retry_config.retry_condition = "Always"
    /\ rpc = "operation"
    /\ invocations = 2
    /\ last_error.kind = "InvalidRequest"
    /\ ~is_retryable(last_error)

\* Under Never a retryable error was returned after one invocation; under
\* Custom an error is retried that Default retries.
C28_WitnessNeverCustom ==
    \/ /\ retry_config.retry_condition = "Never"
       /\ rpc = "returned"
       /\ invocations = 1
       /\ retry_ret.tag = "Err"
       /\ retry_ret.error.kind = "RateLimitExceeded"
    \/ /\ retry_config.retry_condition = "Custom"
       /\ rpc = "sleeping"
       /\ last_error.kind = "StreamInterrupted"

\* The variant of the error is named in the allowlist.
KindAllowed(cfg, error) ==
    \E i \in 1..Len(cfg.error_types) : cfg.error_types[i] = KindName(error.kind)

\* C29: with ErrorTypes(allowlist) a failed attempt is retried if and only
\* if the variant of the error is a member of the allowlist; the message of
\* the error, and names that are only part of an allowlisted name or contain
\* one, make no difference.
C29_KindMembership ==
    [][(DecisionMade /\ retry_config.retry_condition = "ErrorTypes")
       => (Retried <=> KindAllowed(retry_config, last_error'))]_vars

\* C30: after a failure that is retried and is not the last attempt, with a
\* budget set, the time elapsed in the call at that moment plus the delay is
\* compared with max_total_time: at or above it the error is returned
\* without sleeping, so no sleep is started that would end at or after the
\* budget.
C30_NoSleepPastBudget ==
    [][(/\ failures' = failures + 1
        /\ context.attempt < retry_config.max_attempts
        /\ should_retry(retry_config, last_error')
        /\ retry_config.max_total_time # None)
       => LET delay == context'.delay_history[Len(context'.delay_history)]
              in_call == now - call_start
          IN /\ in_call + delay >= retry_config.max_total_time
                => (rpc' = "returned" /\ retry_ret' = Err(last_error'))
             /\ rpc' = "sleeping"
                => wake_at' - call_start < retry_config.max_total_time]_vars


\* C31: every handle the registry has returned for a service name and that a
\* caller still holds refers to the breaker currently stored for that name,
\* so all callers of a service share one state and one outcome history; a
\* handle obtained from get_or_create after create_with_config(name, cfg)
\* is the breaker built with cfg.
C31_HandlesShareOneBreaker ==
    \A c \in Threads :
        registry_callers[c].pc = "returned"
        => LET name == registry_callers[c].service_name
           IN /\ registry_callers[c].ret = breakers[name]
              /\ instances[registry_callers[c].ret].service_name = name


\* A step in which reset(), close() or open() is called on the breaker.
ManualCall ==
    /\ calls' = calls + 1
    /\ \A t \in Threads :
          pc'[t] = pc[t] \/ pc'[t] \in {"manual_blocked", "manual_panicked"}

\* C32: from any state, a call of reset() or close() leaves the breaker
\* Closed with an empty outcome history, and a call of open() leaves it
\* Open{opened_at: now} with the outcome history unchanged.
C32_ManualOverrides ==
    [][ManualCall
       => \/ state' = Closed /\ request_history' = <<>>
          \/ state' = Open(now) /\ request_history' = request_history]_vars


\* C33: no thread ever blocks forever inside the breaker: no thread waits on
\* a lock that is never released (its own or another thread's), and every
\* critical section ends with its locks released, so between two steps both
\* mutexes of the breaker can be taken.
C33_NoThreadBlocksForever ==
    /\ \A t \in Threads :
          pc[t] \notin {"deadlocked", "blocked", "manual_blocked"}
    /\ state_mutex # "held"
    /\ history_mutex # "held"


\* The breaker has been opened, the calls invoked before that have returned,
\* recovery_timeout has elapsed if the breaker is still Open, and the bound
\* on calls leaves room for the probes.
Recoverable ==
    /\ opened
    /\ config.success_threshold <= 100
    /\ stale = {}
    /\ calls + 2 <= MaxCalls
    /\ state.tag = "Open" => now - state.opened_at >= config.recovery_timeout

\* The breaker has been Open and is Closed again.
Recovered ==
    /\ opened
    /\ config.success_threshold <= 100
    /\ state = Closed

\* C34: with success_threshold <= 100, once the breaker is Open, calls keep
\* arriving after recovery_timeout and every operation invoked from then on
\* succeeds, the breaker eventually reaches Closed, and from then on every
\* arriving call is admitted.
C34_RecoveryIsLive ==
    /\ [](Recoverable => <>(state = Closed))
    /\ [][\A t \in Threads :
             (Recovered /\ pc[t] = "idle" /\ pc'[t] # "idle")
             => pc'[t] = "operation"]_vars

\* The part of C34 that is about reaching Closed.
C34_ReachesClosed == Recoverable ~> (state = Closed)


\* C35: the completion of a call that was admitted before the current
\* HalfOpen episode (here: while the breaker was Closed, before open() was
\* called) and whose outcome is recorded while the breaker is HalfOpen
\* leaves the state as it is: attempts and successes are not incremented and
\* the breaker moves neither to Open nor to Closed.
C35_StaleCompletionIgnored ==
    [][\A t \in stale :
          (state.tag = "HalfOpen" /\ Leaves(t, "record")) => state' = state]_vars


\* C36: in every reachable HalfOpen state successes = attempts and
\* attempts < max(half_open_max_requests, 1); and with success_threshold <=
\* 100 the recording of a success never moves the breaker from HalfOpen to
\* Open.
C36_HalfOpenCountersEqual ==
    /\ [](state.tag = "HalfOpen"
          => /\ state.successes = state.attempts
             /\ state.attempts < Max(config.half_open_max_requests, 1))
    /\ [][\A t \in Threads :
             (/\ Leaves(t, "record")
              /\ outcome[t] = "ok"
              /\ state.tag = "HalfOpen"
              /\ config.success_threshold <= 100)
             => state'.tag # "Open"]_vars

\* One success has been counted in HalfOpen, below the probe limit, under a
\* success_threshold that can be met.
C36_Witness ==
    /\ state.tag = "HalfOpen"
    /\ state.attempts = 1
    /\ state.successes = 1
    /\ config.success_threshold <= 100

\* A success recorded at the probe limit has closed the breaker.
C36_WitnessClosed ==
    \E t \in Threads :
        /\ pc[t] = "returned"
        /\ ret[t] = ReturnOk
        /\ state = Closed
        /\ probes_admitted >= 1
        /\ config.half_open_max_requests >= 1
        /\ config.success_threshold <= 100


\* C37: a complete call that passes the gate records exactly one outcome in
\* the breaker, however many attempts the retry executor makes: the attempts
\* leave the history alone, the return of the retry executor appends one
\* entry (a success exactly when it returned Ok, which is when an attempt
\* succeeded), and the recording that follows appends nothing.
C37_OneOutcomePerComplete ==
    [][LET t == CompleteCaller
       IN method' = "complete" =>
          /\ (pc[t] = "operation" /\ pc'[t] = "operation"
               /\ <<rpc, context, invocations, failures>>'
                     # <<rpc, context, invocations, failures>>)
              => request_history' = request_history
          /\ Leaves(t, "operation")
              => /\ pc'[t] = "record"
                 /\ outcome'[t] = (IF retry_ret.tag = "Ok" THEN "ok" ELSE "err")
                 /\ (retry_ret.tag = "Ok") = (failures < invocations)
                 /\ AppendsOne(request_history, request_history',
                               [ok |-> retry_ret.tag = "Ok",
                                time |-> request_time[t]])
          /\ Leaves(t, "record")
              => (request_history' = request_history \/ request_history' = <<>>)]_vars


\* C38: the error that reaches the retry executor has the same is_retryable
\* and the same retry_after as the error the inner provider returned, so
\* with respect_retry_after an inner error that carries a retry_after makes
\* the next attempt wait min(retry_after, max_delay).
C38_RetryHintsPreserved ==
    [][(method = "complete" /\ failures' = failures + 1)
       => /\ is_retryable(last_error') = is_retryable(inner_error')
          /\ retry_after(last_error') = retry_after(inner_error')
          /\ (/\ rpc' = "sleeping"
              /\ retry_config.respect_retry_after
              /\ retry_after(inner_error') # None)
             => wake_at' - now = Min(retry_after(inner_error'),
                                     retry_config.max_delay)]_vars


\* C39: every Err that RetryExecutor.execute returns is an error the
\* operation produced in that call or the TimeoutError synthesized for the
\* budget; the fallback InternalError is never returned.
C39_NoFallbackError ==
    (rpc = "returned" /\ retry_ret.tag = "Err")
    => \/ failures >= 1 /\ retry_ret.error = last_error
       \/ /\ retry_config.max_total_time # None
          /\ retry_ret.error = TimeoutError(retry_config.max_total_time, FALSE)

====
